---------------------------- MODULE Spec2Model ----------------------------
(***************************************************************************)
(* Verification model of the ai-finance-assistant repository:              *)
(*   - rag/loader.py        chunk_text (sliding-window chunker)            *)
(*   - rag/vector_store.py  VectorStore.build / VectorStore.search         *)
(*   - rag/retriever.py     Retriever construction and retrieve            *)
(*   - agents/goal_agent.py, agents/portfolio_agent.py  run pipelines      *)
(*                                                                         *)
(* The state machines share the variable tuple vars:                       *)
(*   SpecChunk    one call of chunk_text, one loop iteration per step      *)
(*   SpecStore    a VectorStore / Retriever driven by build and search     *)
(*   SpecBuilds   a VectorStore whose builds may fail in every way         *)
(*   Spec         one call of GoalAgent.run or PortfolioAgent.run          *)
(*   SpecGoalSeq  one GoalAgent instance, run called again and again       *)
(*   SpecRoute    one call of classify_route (workflow/graph.py)           *)
(*   SpecCache    threads calling the cached agent accessors               *)
(*                (workflow/graph.py)                                      *)
(*   SpecTicker   one call of MarketAnalysisAgent._extract_ticker          *)
(*                (agents/market_agent.py)                                 *)
(*   SpecTTL      threads calling set, get and clear of one TTLCache       *)
(*                (utils/cache.py)                                         *)
(*   SpecMarket   one MarketAnalysisAgent, run called again and again      *)
(*                (agents/market_agent.py)                                 *)
(*   SpecGraph    one invocation of the workflow graph (workflow/graph.py) *)
(***************************************************************************)
EXTENDS Integers, Sequences, FiniteSets, TLC

VARIABLES
    \* ---- chunk_text (rag/loader.py) ----
    text,          \* argument text: a sequence of characters
    chunk_size,    \* argument chunk_size
    overlap,       \* argument overlap
    start,         \* local start
    chunks,        \* local chunks
    cpc,           \* position in chunk_text: "loop" | "returned"
    \* ---- VectorStore / Retriever (rag/vector_store.py, rag/retriever.py) ----
    index,         \* self.index: NoIndex or [d |-> dimension, vecs |-> stored vectors]
    text_chunks,   \* self.text_chunks
    retriever,     \* "none" | "constructed" | "failed": Retriever.__init__ outcome
    sout,          \* outcome of the last VectorStore / Retriever call
    embed_calls,   \* the calls of the Embedding Client that call made, in order
    \* ---- GoalAgent / PortfolioAgent ----
    agent,         \* which agent's run is called
    user_message,  \* the argument of run
    resp,          \* outcome of run: NoResp, a response, or a raised exception
    \* ---- one GoalAgent instance called repeatedly ----
    goal_self,     \* the instance's attributes
    calls,         \* the calls made so far: [msg, resp] in order
    \* ---- classify_route (workflow/graph.py) ----
    route_msg,     \* argument user_message: a sequence of text pieces
    route,         \* the Route returned, "none" before the call
    \* ---- the lru_cache'd agent accessors (workflow/graph.py) ----
    cache,         \* accessor -> the instance its cache holds, 0 when empty
    constructed,   \* accessor -> how many agents its function has constructed
    retrievers,    \* how many Retrievers (with their index) have been built
    tpc,           \* thread -> where it is in an accessor call
    invocations,   \* thread -> accessor calls it has made
    overlapped,    \* accessor -> a call of it began while another was running
    \* ---- MarketAnalysisAgent._extract_ticker (agents/market_agent.py) ----
    tk_msg,        \* argument message: a sequence of characters
    tk_out,        \* what the call returned, NotCalled before the call
    \* ---- TTLCache shared by threads (utils/cache.py) ----
    now,           \* time.time()
    ttl_store,     \* self._store: key -> [value, expiry]
    tt,            \* thread -> the call it is in: position and locals
    tt_out,        \* how the call that ended last ended
    last_set,      \* key -> the (value, expiry) of the most recent set, or NoEntry
    tt_overlapped, \* a call began while another thread was inside a call
    \* ---- one MarketAnalysisAgent called repeatedly (agents/market_agent.py);
    \*      its self.cache._store is ttl_store, its clock is now ----
    m_out,         \* the last run call: its message, what it did, its response
    \* ---- one invocation of the compiled graph (workflow/graph.py) ----
    g_in,          \* the payload given to invoke: userMsg and route ("none": absent)
    g_state,       \* the GraphState
    g_pc,          \* the node to run next, or "end", or "raised"
    g_run,         \* the nodes run so far, in order
    g_classified,  \* how many times classify_route has been called
    g_resp         \* what the agent's run returned or raised

chunkVars == <<text, chunk_size, overlap, start, chunks, cpc>>
storeVars == <<index, text_chunks, retriever, sout, embed_calls>>
agentVars == <<agent, user_message, resp>>
seqVars == <<goal_self, calls>>
routeVars == <<route_msg, route>>
cacheVars == <<cache, constructed, retrievers, tpc, invocations, overlapped>>
tickerVars == <<tk_msg, tk_out>>
ttlVars == <<now, ttl_store, tt, tt_out, last_set, tt_overlapped>>
marketVars == <<m_out>>
graphVars == <<g_in, g_state, g_pc, g_run, g_classified, g_resp>>
lateVars == <<tickerVars, ttlVars, marketVars, graphVars>>
moreVars == <<seqVars, routeVars, cacheVars, lateVars>>
vars == <<text, chunk_size, overlap, start, chunks, cpc,
          index, text_chunks, retriever, sout, embed_calls,
          agent, user_message, resp, moreVars>>

-----------------------------------------------------------------------------
(* Bounds of the model *)

MaxTextLen == 5
MaxChunkSize == 3

-----------------------------------------------------------------------------
(* Generic helpers *)

Min(a, b) == IF a <= b THEN a ELSE b
Max(a, b) == IF a >= b THEN a ELSE b

\* All sequences over S of length 0..n
SeqsUpTo(S, n) == UNION {[1..k -> S] : k \in 0..n}

\* Python slice s[a:b] for a 0-based half-open range: negative indices count
\* from the end, everything is clamped to [0, len], an empty range gives "".
PyIndexClamp(i, len) == IF i < 0 THEN Max(i + len, 0) ELSE Min(i, len)

PySlice(s, a, b) ==
    LET lo == PyIndexClamp(a, Len(s))
        hi == PyIndexClamp(b, Len(s))
    IN  IF lo >= hi THEN <<>> ELSE SubSeq(s, lo + 1, hi)

-----------------------------------------------------------------------------
(* rag/loader.py: chunk_text *)

Alphabet == {"a", "b"}
Texts == SeqsUpTo(Alphabet, MaxTextLen)
ChunkSizes == 0..MaxChunkSize
Overlaps == (-1)..MaxChunkSize

\* The configuration the specification requires: 0 <= overlap < chunk_size.
\* chunk_text itself never tests it.
ValidConfig(cs, ov) == 0 <= ov /\ ov < cs

\* end = min(start + chunk_size, text_length)
ChunkEnd(st, cs, len) == Min(st + cs, len)

\* start += chunk_size - overlap  (written without the overlap: see C4)
ChunkAdvanceNoOverlap(st, cs, ov) == st + cs

ChunkAdvance(st, cs, ov) == st + cs - ov

\* The model stops a call whose loop has appended this many chunks: a call with
\* a valid configuration appends at most Len(text) chunks, so only a call that
\* never leaves the loop is cut.
ChunkCap == MaxTextLen + 2

ChunkInit ==
    /\ text \in Texts
    /\ chunk_size \in ChunkSizes
    /\ overlap \in Overlaps
    /\ start = 0
    /\ chunks = <<>>
    /\ cpc = "loop"

\* One iteration of `while start < text_length`
ChunkStep ==
    /\ cpc = "loop"
    /\ start < Len(text)
    /\ Len(chunks) < ChunkCap
    /\ chunks' = Append(chunks, PySlice(text, start, ChunkEnd(start, chunk_size, Len(text))))
    /\ start' = ChunkAdvance(start, chunk_size, overlap)
    /\ UNCHANGED <<text, chunk_size, overlap, cpc>>
    /\ UNCHANGED <<storeVars, agentVars, moreVars>>

\* The loop condition is false: return chunks
ChunkReturn ==
    /\ cpc = "loop"
    /\ ~(start < Len(text))
    /\ cpc' = "returned"
    /\ UNCHANGED <<text, chunk_size, overlap, start, chunks>>
    /\ UNCHANGED <<storeVars, agentVars, moreVars>>

\* chunk_text as a function, for callers that use a valid configuration
RECURSIVE ChunkLoop(_, _, _, _, _)
ChunkLoop(t, cs, ov, st, acc) ==
    IF st < Len(t)
    THEN ChunkLoop(t, cs, ov, ChunkAdvance(st, cs, ov),
                   Append(acc, PySlice(t, st, ChunkEnd(st, cs, Len(t)))))
    ELSE acc

chunk_text(t, cs, ov) == ChunkLoop(t, cs, ov, 0, <<>>)

-----------------------------------------------------------------------------
(* rag/vector_store.py: VectorStore, and rag/retriever.py: Retriever *)

MaxStored == 2
MaxTopK == 3
MaxDocs == 2

\* Embedding vectors: one dimension, small integer coordinates
Coords == {0, 1, 2}
Vectors == {<<c>> : c \in Coords}
StoreTexts == {<<"a">>, <<"b">>}
TopKs == 1..MaxTopK

\* self.index = None
NoIndex == [none |-> TRUE, d |-> 0, vecs |-> <<>>]

\* faiss.IndexFlatL2(dimension) followed by index.add(embedding_matrix)
FlatIndex(dim, vs) == [none |-> FALSE, d |-> dim, vecs |-> vs]

\* The Embedding Client (OpenAI) is external: a call either fails or returns
\* one vector per input text, in order.
EmbedFail == <<"EmbeddingServiceError">>
EmbedResponses(n) == {EmbedFail} \cup [1..n -> Vectors]

\* Responses whose embeddings do not all have one dimension
RaggedResponses(n) ==
    IF n < 2 THEN {}
    ELSE {[i \in 1..n |-> IF i = j THEN <<0, 0>> ELSE <<0>>] : j \in 1..n}

\* The responses to the embedding call of a build, well-formed or not
BuildResponses(n) == EmbedResponses(n) \cup RaggedResponses(n)

\* np.array(embeddings, dtype='float32') raises ValueError on such a response
IsRagged(er) == \E i \in 1..Len(er) : Len(er[i]) # Len(er[1])

\* What a call left behind: op names the call, q is the query's embedding,
\* indices the local `indices[0]`, ndocs the number of documents a Retriever
\* construction loaded and docs their texts.
NoOut == [op |-> "none", status |-> "none", exc |-> "", q |-> <<>>, top_k |-> 0,
          indices |-> <<>>, result |-> <<>>, ndocs |-> 0, docs |-> <<>>]
Returned(o, qv, k, ids, res) ==
    [op |-> o, status |-> "returned", exc |-> "", q |-> qv, top_k |-> k,
     indices |-> ids, result |-> res, ndocs |-> 0, docs |-> <<>>]
Raised(o, e, qv, k) ==
    [op |-> o, status |-> "raised", exc |-> e, q |-> qv, top_k |-> k,
     indices |-> <<>>, result |-> <<>>, ndocs |-> 0, docs |-> <<>>]

\* One call self.client.embeddings.create(input=texts, model=self.model)
EmbedCall(input, er) == [input |-> input, failed |-> er = EmbedFail]

\* VectorStore.embed(texts), called once by build and once by search: the
\* calls of the client it makes  (with a second attempt after a failure: see
\* C19)
EmbedWithRetry(input, er) ==
    IF er = EmbedFail THEN <<EmbedCall(input, er), EmbedCall(input, er)>>
    ELSE <<EmbedCall(input, er)>>

Embed(input, er) == <<EmbedCall(input, er)>>

\* The text of the query of a search
QueryText == <<"query">>

\* Squared Euclidean distance, as IndexFlatL2 measures it
RECURSIVE SqDistFrom(_, _, _)
SqDistFrom(u, v, i) ==
    IF i > Len(u) THEN 0
    ELSE (u[i] - v[i]) * (u[i] - v[i]) + SqDistFrom(u, v, i + 1)

L2(u, v) == SqDistFrom(u, v, 1)

\* index.search(query, k) of a flat index: the ids (0-based) of the stored
\* vectors by increasing distance, equal distances by increasing id (the scan
\* replaces a kept candidate only by a strictly nearer one), padded with -1 when
\* fewer than k vectors are stored.
FaissRank(idx, qv, i) ==
    Cardinality({j \in 1..Len(idx.vecs) :
        \/ L2(idx.vecs[j], qv) < L2(idx.vecs[i], qv)
        \/ (L2(idx.vecs[j], qv) = L2(idx.vecs[i], qv) /\ j < i)})

FaissSearch(idx, qv, k) ==
    [r \in 1..k |->
        IF r <= Len(idx.vecs)
        THEN (CHOOSE i \in 1..Len(idx.vecs) : FaissRank(idx, qv, i) = r - 1) - 1
        ELSE -1]

\* Python list indexing l[i] with a 0-based index; a negative index counts from
\* the end.
PyItem(l, i) == IF i < 0 THEN l[Len(l) + i + 1] ELSE l[i + 1]
PyInRange(l, i) == -Len(l) <= i /\ i < Len(l)

\* The ids of `indices[0]` that search maps to texts (without the filter: see C8)
SearchKeptIdsUnfiltered(ids) == ids

\* ... for i in indices[0] if i != -1
SearchKeptIds(ids) == LET NotPad(i) == i # -1 IN SelectSeq(ids, NotPad)

\* results = [self.text_chunks[i] for i in indices[0] if i != -1]
\* (reading text_chunks[i - 1]: see C9)
SearchResultsOffByOne(tc, ids) ==
    [r \in 1..Len(SearchKeptIds(ids)) |-> PyItem(tc, SearchKeptIds(ids)[r] - 1)]

SearchResults(tc, ids) ==
    [r \in 1..Len(SearchKeptIds(ids)) |-> PyItem(tc, SearchKeptIds(ids)[r])]

\* VectorStore.build(texts), with the embedding call's response `er`:
\* the outcome and the store it leaves.
BuildOutcome(texts, er) ==
    IF er = EmbedFail
    THEN [out |-> Raised("build", "EmbeddingServiceError", <<>>, 0),
          index |-> index, text_chunks |-> text_chunks]
    ELSE IF Len(er) = 0
    THEN \* dimension = len(embeddings[0]) on an empty list
         [out |-> Raised("build", "IndexError", <<>>, 0),
          index |-> index, text_chunks |-> text_chunks]
    ELSE IF IsRagged(er)
    THEN \* self.index = faiss.IndexFlatL2(dimension) has been assigned, empty,
         \* when np.array raises
         [out |-> Raised("build", "ValueError", <<>>, 0),
          index |-> FlatIndex(Len(er[1]), <<>>), text_chunks |-> text_chunks]
    ELSE [out |-> Returned("build", <<>>, 0, <<>>, <<>>),
          index |-> FlatIndex(Len(er[1]), er), text_chunks |-> texts]

\* VectorStore.search(query, top_k), with the response `er` to embedding the
\* query.
SearchOutcome(er, k) ==
    IF er = EmbedFail
    THEN Raised("search", "EmbeddingServiceError", <<>>, k)
    ELSE IF index.none
    THEN \* self.index is None: None has no attribute 'search'
         Raised("search", "AttributeError", er[1], k)
    ELSE IF Len(er[1]) # index.d
    THEN \* faiss: assert d == self.d
         Raised("search", "AssertionError", er[1], k)
    ELSE LET ids == FaissSearch(index, er[1], k) IN
         IF \E r \in 1..Len(SearchKeptIds(ids)) :
                ~PyInRange(text_chunks, SearchKeptIds(ids)[r])
         THEN Raised("search", "IndexError", er[1], k)
         ELSE Returned("search", er[1], k, ids, SearchResults(text_chunks, ids))

StoreInit ==
    /\ index = NoIndex
    /\ text_chunks = <<>>
    /\ retriever = "none"
    /\ sout = NoOut
    /\ embed_calls = <<>>

\* VectorStore.build called on the store
Build ==
    \E texts \in SeqsUpTo(StoreTexts, MaxStored) :
      \E er \in EmbedResponses(Len(texts)) :
        LET o == BuildOutcome(texts, er) IN
        /\ index' = o.index
        /\ text_chunks' = o.text_chunks
        /\ sout' = o.out
        /\ embed_calls' = Embed(texts, er)
        /\ UNCHANGED retriever
        /\ UNCHANGED <<chunkVars, agentVars, moreVars>>

\* VectorStore.build called on the store, the embedding service answering
\* with embeddings of one dimension or not
BuildAnyResponse ==
    \E texts \in SeqsUpTo(StoreTexts, MaxStored) :
      \E er \in BuildResponses(Len(texts)) :
        \E o \in {BuildOutcome(texts, er)} :
          /\ index' = o.index
          /\ text_chunks' = o.text_chunks
          /\ sout' = o.out
          /\ embed_calls' = Embed(texts, er)
          /\ UNCHANGED retriever
          /\ UNCHANGED <<chunkVars, agentVars, moreVars>>

\* VectorStore.search called on the store
Search ==
    \E k \in TopKs : \E er \in EmbedResponses(1) :
        /\ sout' = SearchOutcome(er, k)
        /\ embed_calls' = Embed(<<QueryText>>, er)
        /\ UNCHANGED <<index, text_chunks, retriever>>
        /\ UNCHANGED <<chunkVars, agentVars, moreVars>>

\* rag/loader.py: chunk_text's defaults, used by Retriever._build_Index
DefaultChunkSize == 500
DefaultOverlap == 50

\* The Document Source: load_documents() yields the texts of the *.txt files
DocTexts == {<<>>, <<"a">>, <<"b">>}
Corpora == SeqsUpTo(DocTexts, MaxDocs)

\* for doc in documents: chunks.extend(chunk_text(doc["text"]))
RECURSIVE AllChunks(_)
AllChunks(docs) ==
    IF docs = <<>> THEN <<>>
    ELSE chunk_text(Head(docs), DefaultChunkSize, DefaultOverlap) \o AllChunks(Tail(docs))

\* Retriever(): self.store = VectorStore(); self._build_Index()
RetrieverConstruct ==
    /\ retriever = "none"
    /\ index = NoIndex
    /\ \E docs \in Corpora :
        \E er \in EmbedResponses(Len(AllChunks(docs))) :
          LET o == BuildOutcome(AllChunks(docs), er) IN
          /\ index' = o.index
          /\ text_chunks' = o.text_chunks
          /\ sout' = [o.out EXCEPT !.op = "Retriever", !.ndocs = Len(docs), !.docs = docs]
          /\ embed_calls' = Embed(AllChunks(docs), er)
          /\ retriever' = IF o.out.status = "raised" THEN "failed" ELSE "constructed"
    /\ UNCHANGED <<chunkVars, agentVars, moreVars>>

\* Retriever.retrieve(query, top_k): return self.store.search(query, top_k)
Retrieve ==
    /\ retriever = "constructed"
    /\ \E k \in TopKs : \E er \in EmbedResponses(1) :
        /\ sout' = [SearchOutcome(er, k) EXCEPT !.op = "retrieve"]
        /\ embed_calls' = Embed(<<QueryText>>, er)
    /\ UNCHANGED <<index, text_chunks, retriever>>
    /\ UNCHANGED <<chunkVars, agentVars, moreVars>>

-----------------------------------------------------------------------------
(* Python floats and parsed JSON values, as the agents see them *)

RECURSIVE GCD(_, _)
GCD(a, b) == IF b = 0 THEN a ELSE GCD(b, a % b)

Abs(x) == IF x < 0 THEN -x ELSE x

\* A float is finite (k = "fin", the rational n/d in lowest terms, d > 0), a
\* finite float of the top of the range such as 1e308 (k = "huge": positive,
\* above every "fin" value, and 12 * huge overflows to inf), a positive float
\* below the rounding unit such as 1e-17 (k = "tiny": below every positive "fin"
\* value, absorbed when added to one: 1.0 + 1e-17 == 1.0, and 1e-17 / 12 is
\* again such a float, not zero), inf or nan.
Fin(n, d) ==
    LET g == GCD(Abs(n), Abs(d))
        sg == IF d < 0 THEN -1 ELSE 1
    IN  [k |-> "fin", n |-> sg * (n \div g), d |-> sg * (d \div g)]
Huge == [k |-> "huge", n |-> 1, d |-> 1]
Tiny == [k |-> "tiny", n |-> 0, d |-> 1]
Inf == [k |-> "inf", n |-> 1, d |-> 1]
NaN == [k |-> "nan", n |-> 0, d |-> 1]
Zero == Fin(0, 1)
One == Fin(1, 1)

\* math.isfinite
IsFinite(x) == x.k \in {"fin", "huge", "tiny"}

\* x < y, x <= y (comparisons with nan are false)
FLt(x, y) ==
    CASE x.k = "fin" /\ y.k = "fin" -> x.n * y.d < y.n * x.d
      [] x.k = "fin" /\ y.k = "huge" -> TRUE
      [] x.k = "fin" /\ y.k = "tiny" -> x.n <= 0
      [] x.k = "tiny" /\ y.k = "fin" -> y.n > 0
      [] x.k = "tiny" /\ y.k = "huge" -> TRUE
      [] x.k \in {"fin", "tiny", "huge"} /\ y.k = "inf" -> TRUE
      [] OTHER -> FALSE
FLe(x, y) ==
    CASE x.k = "fin" /\ y.k = "fin" -> x.n * y.d <= y.n * x.d
      [] x.k = "fin" /\ y.k = "huge" -> TRUE
      [] x.k = "huge" /\ y.k = "huge" -> TRUE
      [] x.k = "fin" /\ y.k = "tiny" -> x.n <= 0
      [] x.k = "tiny" /\ y.k = "fin" -> y.n > 0
      [] x.k = "tiny" /\ y.k \in {"tiny", "huge"} -> TRUE
      [] x.k # "nan" /\ y.k = "inf" -> TRUE
      [] OTHER -> FALSE

\* Arithmetic. On "fin" floats it is exact (common factors are cancelled before
\* the products are formed). nan propagates. A sum with inf is inf, 1e308 + 1e308
\* overflows to inf, and 1e308 absorbs a "fin" or "tiny" term; a "tiny" term is
\* absorbed by a non-zero "fin" one. A "tiny" float multiplied or divided by a
\* non-zero "fin" one of the model stays "tiny". inf / inf is nan, a finite float
\* over inf is 0.0, 1e308 / 1e308 is 1.0, and a positive "fin" float over 1e308
\* is "tiny". (The model forms no product with an inf or 1e308 factor, and
\* negates no inf, 1e308 or "tiny" float that is not then absorbed.)
FAdd(x, y) ==
    IF x.k = "nan" \/ y.k = "nan" THEN NaN
    ELSE IF x.k = "inf" \/ y.k = "inf" THEN Inf
    ELSE IF x.k = "huge" /\ y.k = "huge" THEN Inf
    ELSE IF x.k = "huge" \/ y.k = "huge" THEN Huge
    ELSE IF x.k = "tiny" THEN (IF y = Zero THEN x ELSE y)
    ELSE IF y.k = "tiny" THEN (IF x = Zero THEN y ELSE x)
    ELSE
    LET l == (x.d \div GCD(x.d, y.d)) * y.d
    IN  Fin(x.n * (l \div x.d) + y.n * (l \div y.d), l)
FNeg(x) == IF x.k = "fin" THEN Fin(-x.n, x.d) ELSE x
FSub(x, y) == FAdd(x, FNeg(y))
FMul(x, y) ==
    IF x.k = "nan" \/ y.k = "nan" THEN NaN
    ELSE IF x.k = "tiny" THEN (IF y = Zero THEN Zero ELSE Tiny)
    ELSE IF y.k = "tiny" THEN (IF x = Zero THEN Zero ELSE Tiny)
    ELSE
    LET g1 == GCD(Abs(x.n), y.d)
        g2 == GCD(Abs(y.n), x.d)
    IN  Fin((x.n \div g1) * (y.n \div g2), (x.d \div g2) * (y.d \div g1))
FDiv(x, y) ==
    IF x.k = "nan" \/ y.k = "nan" THEN NaN
    ELSE IF x.k = "inf" THEN (IF y.k = "inf" THEN NaN ELSE Inf)
    ELSE IF y.k = "inf" THEN Zero
    ELSE IF x.k = "huge" THEN (IF y.k = "huge" THEN One ELSE Huge)
    ELSE IF y.k = "huge" THEN (IF x.k = "fin" /\ x.n > 0 THEN Tiny ELSE Zero)
    ELSE IF x.k = "tiny" THEN Tiny
    ELSE IF y.k = "tiny" THEN (IF x = Zero THEN Zero ELSE Huge)
    ELSE FMul(x, Fin(y.d, y.n))
RECURSIVE FPow(_, _)
FPow(x, m) ==
    IF m = 0 THEN One
    ELSE IF m % 2 = 0 THEN LET h == FPow(x, m \div 2) IN FMul(h, h)
    ELSE FMul(x, FPow(x, m - 1))

\* round(x) of a finite float: to the nearest integer, halves to the even one
PyRound(x) ==
    LET fl == x.n \div x.d
        twice == 2 * (x.n % x.d)
    IN  IF twice < x.d THEN fl
        ELSE IF twice > x.d THEN fl + 1
        ELSE IF fl % 2 = 0 THEN fl ELSE fl + 1

\* A parsed JSON value: a number (json.loads also accepts NaN and Infinity), an
\* integer literal too large for a float (kept by Python as an int), a string,
\* true, null, an array; Absent stands for a key the object does not have.
JNumber(x) == [t |-> "number", f |-> x, s |-> ""]
JBigInt == [t |-> "bigint", f |-> Zero, s |-> ""]
JString(str) == [t |-> "string", f |-> Zero, s |-> str]
JTrue == [t |-> "true", f |-> One, s |-> ""]
JNull == [t |-> "null", f |-> Zero, s |-> ""]
JArray == [t |-> "array", f |-> Zero, s |-> ""]
Absent == [t |-> "absent", f |-> Zero, s |-> ""]

Converted(x) == [exc |-> "", f |-> x]
ConvertFails(e) == [exc |-> e, f |-> Zero]

\* float(str) for the strings of the model
ParseFloat(str) ==
    CASE str = "1000" -> Converted(Fin(1000, 1))
      [] str = " 0.1 " -> Converted(Fin(1, 10))
      [] str = "nan" -> Converted(NaN)
      [] OTHER -> ConvertFails("ValueError")

\* float(value)
PyFloat(v) ==
    CASE v.t = "number" -> Converted(v.f)
      [] v.t = "true" -> Converted(One)
      [] v.t = "string" -> ParseFloat(v.s)
      [] v.t = "bigint" -> ConvertFails("OverflowError")
      [] OTHER -> ConvertFails("TypeError")

\* A user message: text that json.loads rejects ("malformed"), or the JSON
\* document it parses to: an array, or an object given by its key/value pairs
\* in order (keys distinct).
Malformed == [shape |-> "malformed", items |-> <<>>]
ArrayMessage == [shape |-> "array", items |-> <<>>]
ObjectMessage(pairs) == [shape |-> "object", items |-> pairs]

\* payload.get(key, default) / key in payload
HasKey(items, key) == \E i \in 1..Len(items) : items[i][1] = key
GetKey(items, key, default) ==
    IF HasKey(items, key)
    THEN items[CHOOSE i \in 1..Len(items) : items[i][1] = key][2]
    ELSE default

\* "disclaimer:" in s.lower(), for an answer given as its fragments: of the
\* fragments of the model only these contain the marker, each once.
Lower(frag) ==
    CASE frag = "Disclaimer:" -> "disclaimer:"
      [] frag = "DISCLAIMER:" -> "disclaimer:"
      [] OTHER -> frag
DisclaimerCount(answer) ==
    Cardinality({i \in 1..Len(answer) : Lower(answer[i]) = "disclaimer:"})
HasDisclaimer(answer) == DisclaimerCount(answer) > 0

\* AgentResponse(answer, agent_name, confidence, sources), with the locals of
\* the run that produced it in `trace`; or the exception run let through.
NoResp == [kind |-> "none", answer |-> <<>>, agent_name |-> "", confidence |-> "",
           sources |-> <<>>, exc |-> "", trace |-> <<>>]
AgentResponse(ans, name, conf, srcs, tr) ==
    [kind |-> "response", answer |-> ans, agent_name |-> name, confidence |-> conf,
     sources |-> srcs, exc |-> "", trace |-> tr]
AgentRaises(e, tr) ==
    [kind |-> "raised", answer |-> <<>>, agent_name |-> "", confidence |-> "",
     sources |-> <<>>, exc |-> e, trace |-> tr]

-----------------------------------------------------------------------------
(* agents/goal_agent.py: GoalAgent *)

GOAL_DISCLAIMER == "Educational only - not financial advice. Returns a simplified estimate."

\* GoalAgent._parse_payload: None unless json.loads gives a dict
GoalParsePayload(msg) == IF msg.shape = "object" THEN msg.items ELSE <<>>
GoalPayloadIsNone(msg) == msg.shape # "object"

\* GoalAgent._to_float: the float, None (TypeError, ValueError, non-finite),
\* or the exception float() raised that is not caught
FloatValue(x) == [r |-> "float", f |-> x, exc |-> ""]
FloatNone == [r |-> "None", f |-> Zero, exc |-> ""]
FloatRaises(e) == [r |-> "raise", f |-> Zero, exc |-> e]

GoalToFloat(v) ==
    LET c == PyFloat(v) IN
    IF c.exc \in {"TypeError", "ValueError"} THEN FloatNone
    ELSE IF c.exc # "" THEN FloatRaises(c.exc)
    ELSE IF ~IsFinite(c.f) THEN FloatNone
    ELSE FloatValue(c.f)

\* GoalAgent._normalize_annual_return (accepting 100 < r as a percentage too:
\* see C10)
NormalizeAnnualReturnNoUpperBound(raw) ==
    IF ~IsFinite(raw) THEN FloatNone
    ELSE IF FLe(Zero, raw) /\ FLt(raw, One) THEN FloatValue(raw)
    ELSE IF FLe(One, raw) /\ raw.k = "fin" THEN FloatValue(FDiv(raw, Fin(100, 1)))
    ELSE FloatNone

NormalizeAnnualReturn(raw) ==
    IF ~IsFinite(raw) THEN FloatNone
    ELSE IF FLe(Zero, raw) /\ FLt(raw, One) THEN FloatValue(raw)
    ELSE IF FLe(One, raw) /\ FLe(raw, Fin(100, 1)) THEN FloatValue(FDiv(raw, Fin(100, 1)))
    ELSE FloatNone

MsgMissing(field) == "Missing required field: '" \o field \o "'."
MsgTarget == "target_amount must be a number greater than 0."
MsgYears == "years must be a number greater than 0."
MsgReturnNumeric == "expected_annual_return must be numeric."
MsgReturnRange == "expected_annual_return must be between 0 and 100, provided as either decimal (0.07) or percent (7)."
MsgSavings == "current_savings must be a number greater than or equal to 0."
MsgGoalJson == "Please provide JSON like {...}."

Invalid(msg) == [r |-> "error", msg |-> msg, exc |-> "", norm |-> <<>>]
ValidationRaises(e) == [r |-> "raise", msg |-> "", exc |-> e, norm |-> <<>>]
Normalized(ta, y, ar, cs) ==
    [r |-> "ok", msg |-> "", exc |-> "",
     norm |-> [target_amount |-> ta, years |-> y, annual_return_decimal |-> ar,
               current_savings |-> cs]]

\* GoalAgent._validate_and_normalize: the normalized dict, the error string,
\* or the exception that escapes _to_float
GoalValidateAndNormalize(payload) ==
    IF ~HasKey(payload, "target_amount") THEN Invalid(MsgMissing("target_amount"))
    ELSE IF ~HasKey(payload, "years") THEN Invalid(MsgMissing("years"))
    ELSE IF ~HasKey(payload, "expected_annual_return")
    THEN Invalid(MsgMissing("expected_annual_return"))
    ELSE
    LET ta == GoalToFloat(GetKey(payload, "target_amount", JNull)) IN
    IF ta.r = "raise" THEN ValidationRaises(ta.exc)
    ELSE IF ta.r = "None" \/ FLe(ta.f, Zero) THEN Invalid(MsgTarget)
    ELSE
    LET yr == GoalToFloat(GetKey(payload, "years", JNull)) IN
    IF yr.r = "raise" THEN ValidationRaises(yr.exc)
    ELSE IF yr.r = "None" \/ FLe(yr.f, Zero) THEN Invalid(MsgYears)
    ELSE
    LET ai == GoalToFloat(GetKey(payload, "expected_annual_return", JNull)) IN
    IF ai.r = "raise" THEN ValidationRaises(ai.exc)
    ELSE IF ai.r = "None" THEN Invalid(MsgReturnNumeric)
    ELSE
    LET ad == NormalizeAnnualReturn(ai.f) IN
    IF ad.r = "None" THEN Invalid(MsgReturnRange)
    ELSE
    LET cs == GoalToFloat(GetKey(payload, "current_savings", JNumber(Zero))) IN
    IF cs.r = "raise" THEN ValidationRaises(cs.exc)
    ELSE IF cs.r = "None" \/ FLt(cs.f, Zero) THEN Invalid(MsgSavings)
    ELSE Normalized(ta.f, yr.f, ad.f, cs.f)


\* int(round(years * 12)): 12 * huge is inf, and round(inf) raises
YearsTimes12Overflows(years) == years.k = "huge"

\* months = max(1, int(round(years * 12)))
GoalMonths(years) == Max(1, PyRound(FMul(years, Fin(12, 1))))

NoResult == [exc |-> "", months |-> 0, monthly_rate |-> Zero,
             fv_of_current_savings |-> Zero, fv_needed |-> Zero,
             monthly_contribution |-> Zero]

\* GoalAgent._compute_monthly_contribution, for a horizon whose month count is
\* representable: the result dict, or ZeroDivisionError when fv_needed is
\* divided by an annuity factor of 0.0
GoalComputeMonthlyContribution(norm) ==
    LET fv == norm.target_amount
        pv == norm.current_savings
        months == GoalMonths(norm.years)
        monthly_rate == FDiv(norm.annual_return_decimal, Fin(12, 1))
        growth_factor == FPow(FAdd(One, monthly_rate), months)
        fv_of_current_savings == FMul(pv, growth_factor)
        fv_needed == FSub(fv, fv_of_current_savings)
        annuity_factor == FDiv(FSub(growth_factor, One), monthly_rate)
        divides_by_zero ==
            ~FLe(fv_needed, Zero) /\ monthly_rate # Zero /\ annuity_factor = Zero
        monthly_contribution ==
            IF FLe(fv_needed, Zero) THEN Zero
            ELSE IF monthly_rate = Zero THEN FDiv(fv_needed, Fin(months, 1))
            ELSE FDiv(fv_needed, annuity_factor)
    IN  IF divides_by_zero
        THEN [NoResult EXCEPT !.exc = "ZeroDivisionError"]
        ELSE [exc |-> "", months |-> months, monthly_rate |-> monthly_rate,
              fv_of_current_savings |-> fv_of_current_savings, fv_needed |-> fv_needed,
              monthly_contribution |->
                IF FLt(monthly_contribution, Zero) THEN Zero ELSE monthly_contribution]

\* GoalAgent._format_answer: the report's lines; the numbers they render are
\* those of the result
GoalFormatAnswer(result) ==
    <<"Required monthly contribution: $", "- Target amount (FV): $", "- Time horizon: ",
      "- Expected annual return: ", "- Current savings (PV): $",
      "- Projected future value of current savings: $",
      "- Contribution timing: end of each month (ordinary annuity)",
      "Disclaimer:", GOAL_DISCLAIMER>>

GoalTrace(v, didCompute, res) == [validation |-> v, computed |-> didCompute, result |-> res]
NotValidated == [r |-> "none", msg |-> "", exc |-> "", norm |-> <<>>]

\* GoalAgent._error_response
GoalErrorResponse(message, tr) ==
    AgentResponse(IF ~HasDisclaimer(<<message>>)
                  THEN <<message, "Disclaimer:", GOAL_DISCLAIMER>>
                  ELSE <<message>>,
                  "goal", "low", <<"self-computed">>, tr)

\* GoalAgent.run
GoalAgentRun(msg) ==
    IF GoalPayloadIsNone(msg)
    THEN GoalErrorResponse(MsgGoalJson, GoalTrace(NotValidated, FALSE, NoResult))
    ELSE
    LET v == GoalValidateAndNormalize(GoalParsePayload(msg)) IN
    IF v.r = "raise" THEN AgentRaises(v.exc, GoalTrace(v, FALSE, NoResult))
    ELSE IF v.r = "error" THEN GoalErrorResponse(v.msg, GoalTrace(v, FALSE, NoResult))
    ELSE IF YearsTimes12Overflows(v.norm.years)
    THEN AgentRaises("OverflowError", GoalTrace(v, TRUE, NoResult))
    ELSE LET result == GoalComputeMonthlyContribution(v.norm) IN
         IF result.exc # "" THEN AgentRaises(result.exc, GoalTrace(v, TRUE, NoResult))
         ELSE AgentResponse(GoalFormatAnswer(result), "goal", "high", <<"self-computed">>,
                            GoalTrace(v, TRUE, result))

\* The inputs of the model: per field, values of every kind validation tells
\* apart
TargetValues ==
    {Absent, JNull, JString("abc"), JString("1000"), JBigInt, JNumber(NaN),
     JNumber(Zero), JNumber(Fin(1000, 1)), JTrue}
YearsValues ==
    {Absent, JArray, JString(" 0.1 "), JBigInt, JNumber(Fin(-1, 1)), JNumber(Zero),
     JNumber(Fin(1, 24)), JNumber(Fin(1, 12)), JNumber(Fin(1, 8)), JNumber(Huge)}
ReturnValues ==
    {Absent, JString("abc"), JString("nan"), JBigInt, JNumber(Inf), JNumber(Huge),
     JNumber(Fin(-1, 100)), JNumber(Fin(-1, 1)), JNumber(Zero), JNumber(Tiny),
     JNumber(Fin(7, 100)),
     JNumber(Fin(99, 100)), JNumber(One), JNumber(Fin(7, 1)), JNumber(Fin(100, 1)),
     JNumber(Fin(1001, 10)), JNumber(Fin(101, 1))}
SavingsValues ==
    {Absent, JNull, JBigInt, JNumber(Fin(-1, 1)), JNumber(Zero), JNumber(Fin(100, 1)),
     JNumber(Fin(2000, 1))}

Pair(key, v) == IF v = Absent THEN <<>> ELSE << <<key, v>> >>
GoalObject(ta, y, r, cs) ==
    ObjectMessage(Pair("target_amount", ta) \o Pair("years", y)
                  \o Pair("expected_annual_return", r) \o Pair("current_savings", cs))
\* tests/test_unit_routing_and_math.py and the specification's worked case:
\* target 100000, 10 years, 0%, savings 20000
GoalKnownCase ==
    GoalObject(JNumber(Fin(100000, 1)), JNumber(Fin(10, 1)), JNumber(Zero),
               JNumber(Fin(20000, 1)))
GoalMessages ==
    {Malformed, ArrayMessage, GoalKnownCase}
    \cup {GoalObject(ta, y, r, cs) :
            ta \in TargetValues, y \in YearsValues, r \in ReturnValues, cs \in SavingsValues}

\* GoalAgent().run(user_message)
GoalRun ==
    /\ agent = "goal"
    /\ resp = NoResp
    /\ resp' = GoalAgentRun(user_message)
    /\ UNCHANGED <<agent, user_message>>
    /\ UNCHANGED <<chunkVars, storeVars, moreVars>>


-----------------------------------------------------------------------------
(* agents/portfolio_agent.py: PortfolioAgent *)

MaxHoldings == 2

PORTFOLIO_DISCLAIMER == "Educational only - not financial advice. May not reflect real-world constraints."
STOCK_KEYWORDS == {"VTI", "VOO", "VUG", "QQQ", "VXUS", "VEA", "VWO", "SPY", "TSLA", "AAPL",
                   "MSFT", "AMZN", "GOOGL", "META", "NVDA", "JPM", "JNJ", "UNH", "HD", "PG",
                   "DIS", "MA", "BAC", "V", "ADBE", "CMCSA", "NFLX"}
BOND_KEYWORDS == {"BND", "BNDX", "AGG", "TLT", "IEF", "SHY", "MUB", "LQD", "HYG", "JNK"}

MsgPortfolioJson == "Please provide JSON like {\"AAPL\": 5000, \"VTI\": 8000}."
MsgPortfolioObject == "Portfolio must be a JSON object mapping tickers to dollar values."
MsgNoHoldings == "No usable holdings found. Provide positive dollar amounts per ticker."

\* str(k).upper().strip() for the keys of the model
UpperStrip(key) ==
    CASE key = "aapl" -> "AAPL"
      [] key = " AAPL " -> "AAPL"
      [] key = "disclaimer:" -> "DISCLAIMER:"
      [] OTHER -> key

\* clean[ticker] = clean.get(ticker, 0.0) + value, on a dict kept as its
\* (ticker, amount) pairs in insertion order
DictAdd(clean, ticker, value) ==
    IF HasKey(clean, ticker)
    THEN [i \in 1..Len(clean) |->
            IF clean[i][1] = ticker THEN <<ticker, FAdd(clean[i][2], value)>> ELSE clean[i]]
    ELSE Append(clean, <<ticker, value>>)

\* PortfolioAgent._sanitize_holdings: the loop over raw.items() from pair i on;
\* the clean dict, or the exception of float() that is not caught
RECURSIVE SanitizeFrom(_, _, _)
SanitizeFrom(items, i, clean) ==
    IF i > Len(items) THEN [exc |-> "", clean |-> clean]
    ELSE
    LET c == PyFloat(items[i][2])
        ticker == UpperStrip(items[i][1])
    IN  IF c.exc \in {"TypeError", "ValueError"} THEN SanitizeFrom(items, i + 1, clean)
        ELSE IF c.exc # "" THEN [exc |-> c.exc, clean |-> clean]
        ELSE IF ~IsFinite(c.f) \/ FLe(c.f, Zero) THEN SanitizeFrom(items, i + 1, clean)
        ELSE IF ticker = "" THEN SanitizeFrom(items, i + 1, clean)
        ELSE SanitizeFrom(items, i + 1, DictAdd(clean, ticker, c.f))

SanitizeHoldings(items) == SanitizeFrom(items, 1, <<>>)

RECURSIVE FSum(_, _)
FSum(xs, i) == IF i > Len(xs) THEN Zero ELSE FAdd(xs[i], FSum(xs, i + 1))

\* max(weights.values()): the first item that no later item is greater than
RECURSIVE PyMaxFrom(_, _, _)
PyMaxFrom(xs, i, best) ==
    IF i > Len(xs) THEN best
    ELSE PyMaxFrom(xs, i + 1, IF FLt(best, xs[i]) THEN xs[i] ELSE best)
FMaxOf(xs) == PyMaxFrom(xs, 2, xs[1])

\* max(a, b) and min(a, b) of two floats: the first argument unless the second
\* is greater (smaller), so a nan first argument is returned and a nan second
\* argument is ignored
PyMax2(a, b) == IF FLt(a, b) THEN b ELSE a
PyMin2(a, b) == IF FLt(b, a) THEN b ELSE a

\* severity = {"low": 0, "medium": 1, "high": 2}  (all ranked alike: see C14)
SeverityAllEqual(risk) == 0

Severity(risk) == CASE risk = "low" -> 0 [] risk = "medium" -> 1 [] risk = "high" -> 2

\* sorted(..., key=lambda x: x[1]): by increasing weight (see C15)
AllocationRankAscending(weights, i) ==
    Cardinality({j \in 1..Len(weights) :
        \/ FLt(weights[j], weights[i])
        \/ (~FLt(weights[i], weights[j]) /\ j < i)})

\* sorted(..., key=lambda x: x[1], reverse=True): by decreasing weight, weights
\* of which neither is less than the other (equal ones, and nan ones, which
\* occur only when every other weight is 0.0 or nan) in their original order
AllocationRank(weights, i) ==
    Cardinality({j \in 1..Len(weights) :
        \/ FLt(weights[i], weights[j])
        \/ (~FLt(weights[j], weights[i]) /\ j < i)})

\* PortfolioAgent._compute_metrics
PortfolioComputeMetrics(holdings) ==
    LET n == Len(holdings)
        amounts == [i \in 1..n |-> holdings[i][2]]
        total == FSum(amounts, 1)
        weights == [i \in 1..n |-> FDiv(amounts[i], total)]
        hhi == FSum([i \in 1..n |-> FMul(weights[i], weights[i])], 1)
        raw_score == FMul(FSub(One, hhi), Fin(100, 1))
        clamped == PyMax2(Zero, PyMin2(raw_score, Fin(100, 1)))
        diversification_score == Fin(PyRound(FMul(clamped, Fin(10, 1))), 10)
        top_weight == FMaxOf(weights)
        risk == IF n < 3 \/ FLt(Fin(60, 100), top_weight) \/ FLt(Fin(35, 100), hhi) THEN "high"
                ELSE IF FLt(Fin(40, 100), top_weight) \/ FLt(Fin(25, 100), hhi) \/ n < 5
                THEN "medium"
                ELSE "low"
        allocations ==
            [r \in 1..n |->
                LET i == CHOOSE i \in 1..n : AllocationRank(weights, i) = r - 1
                IN  <<holdings[i][1], weights[i], amounts[i]>>]
        stock_value == FSum([i \in 1..n |->
                            IF holdings[i][1] \in STOCK_KEYWORDS THEN amounts[i] ELSE Zero], 1)
        bond_value == FSum([i \in 1..n |->
                            IF holdings[i][1] \notin STOCK_KEYWORDS
                               /\ holdings[i][1] \in BOND_KEYWORDS THEN amounts[i] ELSE Zero], 1)
        other_value == FSum([i \in 1..n |->
                            IF holdings[i][1] \notin STOCK_KEYWORDS
                               /\ holdings[i][1] \notin BOND_KEYWORDS THEN amounts[i] ELSE Zero], 1)
        stock_pct == FMul(FDiv(stock_value, total), Fin(100, 1))
        bond_pct == FMul(FDiv(bond_value, total), Fin(100, 1))
        other_pct == FMul(FDiv(other_value, total), Fin(100, 1))
        asset_risk == IF FLe(Fin(80, 1), stock_pct) THEN "high"
                      ELSE IF FLe(Fin(50, 1), stock_pct) THEN "medium"
                      ELSE "low"
    IN  [total |-> total, allocations |-> allocations,
         diversification_score |-> diversification_score,
         risk |-> IF Severity(asset_risk) > Severity(risk) THEN asset_risk ELSE risk,
         concentration_risk |-> risk, asset_risk |-> asset_risk, hhi |-> hhi,
         stock_pct |-> stock_pct, bond_pct |-> bond_pct, other_pct |-> other_pct]

\* PortfolioAgent._format_answer: the report's lines; an allocation line shows
\* the holding's ticker as the user's key gave it (uppercased, trimmed)
PortfolioFormatAnswer(metrics) ==
    <<"Total value: $", "Allocations:">>
    \o [r \in 1..Len(metrics.allocations) |-> metrics.allocations[r][1]]
    \o <<"Diversification score: ", "Risk: ", "- Asset mix (approx): ",
         "Disclaimer:", PORTFOLIO_DISCLAIMER>>

PortfolioTrace(h, m) == [holdings |-> h, metrics |-> m]

\* PortfolioAgent._error_response
PortfolioErrorResponse(message) ==
    AgentResponse(<<message>>, "portfolio", "low", <<"self-computed">>,
                  PortfolioTrace(<<>>, <<>>))

\* PortfolioAgent.run
PortfolioAgentRun(msg) ==
    IF msg.shape = "malformed" THEN PortfolioErrorResponse(MsgPortfolioJson)
    ELSE IF msg.shape # "object" THEN PortfolioErrorResponse(MsgPortfolioObject)
    ELSE
    LET h == SanitizeHoldings(msg.items) IN
    IF h.exc # "" THEN AgentRaises(h.exc, PortfolioTrace(h.clean, <<>>))
    ELSE IF h.clean = <<>> THEN PortfolioErrorResponse(MsgNoHoldings)
    ELSE LET metrics == PortfolioComputeMetrics(h.clean) IN
         AgentResponse(PortfolioFormatAnswer(metrics), "portfolio", "high",
                       <<"self-computed">>, PortfolioTrace(h.clean, metrics))

TickerKeys == {"aapl", " AAPL ", "VTI", "BND", "", "disclaimer:"}
HoldingValues ==
    {JNumber(Fin(5000, 1)), JNumber(Fin(2000, 1)), JString("1000"), JString("x"),
     JNumber(Fin(-100, 1)), JNumber(Zero), JNumber(Huge), JBigInt}
DistinctKeys(pairs) == \A i, j \in 1..Len(pairs) : pairs[i][1] = pairs[j][1] => i = j

\* Larger portfolios: the first n of these tickers (two stock funds, a bond
\* fund, three others), each with one of three amounts
MaxBigHoldings == 5
BigTickers == <<"VTI", "AAPL", "BND", "GLD", "XYZ", "ABC">>
BigAmounts == {1000, 2000, 4000}
BigPortfolios ==
    UNION {{ObjectMessage([i \in 1..n |-> <<BigTickers[i], JNumber(Fin(f[i], 1))>>]) :
                f \in [1..n -> BigAmounts]} : n \in 3..MaxBigHoldings}

\* tests/test_unit_routing_and_math.py: the known portfolio
PortfolioKnownCase ==
    ObjectMessage(<< <<"AAPL", JNumber(Fin(5000, 1))>>, <<"VTI", JNumber(Fin(8000, 1))>>,
                     <<"BND", JNumber(Fin(2000, 1))>> >>)

\* tests/test_unit_routing_and_math.py: the raw holdings of the sanitizer test
PortfolioSanitizeCase ==
    ObjectMessage(<< <<"aapl", JString("1000")>>, <<" AAPL ", JNumber(Fin(500, 1))>>,
                     <<"VTI", JNumber(Fin(2000, 1))>>, <<"BND", JNumber(Fin(-100, 1))>>,
                     <<"BAD", JString("x")>>, <<"", JNumber(Fin(200, 1))>> >>)

PortfolioMessages ==
    {Malformed, ArrayMessage, PortfolioKnownCase, PortfolioSanitizeCase}
    \cup BigPortfolios
    \cup {ObjectMessage(pairs) :
            pairs \in {ps \in SeqsUpTo(TickerKeys \X HoldingValues, MaxHoldings) :
                        DistinctKeys(ps)}}

\* PortfolioAgent().run(user_message)
PortfolioRun ==
    /\ agent = "portfolio"
    /\ resp = NoResp
    /\ resp' = PortfolioAgentRun(user_message)
    /\ UNCHANGED <<agent, user_message>>
    /\ UNCHANGED <<chunkVars, storeVars, moreVars>>


-----------------------------------------------------------------------------
(* One GoalAgent instance, its run called repeatedly *)

MaxCalls == 3

\* GoalAgent(): the class defines no __init__; the only attribute is name
GoalAgentNew == [name |-> "goal"]

\* The attributes of the instance after run(user_message) returned or raised r
\* (remembering the last failure in an attribute: see C12)
GoalSelfAfterRunRemembering(self, msg, r) ==
    IF r.kind = "response" /\ r.confidence = "low"
    THEN [self EXCEPT !.name = "goal (after an error)"]
    ELSE self

\* run and its helpers assign no attribute of self
GoalSelfAfterRun(self, msg, r) == self

\* self.run(user_message): the response carries agent_name = self.name
GoalNamed(self, r) ==
    IF r.kind = "response" THEN [r EXCEPT !.agent_name = self.name] ELSE r

GoalRunResult(self, msg, out) ==
    [resp |-> out, self |-> GoalSelfAfterRun(self, msg, out)]

GoalRunOn(self, msg) == GoalRunResult(self, msg, GoalNamed(self, GoalAgentRun(msg)))

\* The messages of the repeated calls: unparseable, not an object, a missing
\* field, two valid requests, and a valid request on which run raises
GoalSeqMessages ==
    {Malformed, ArrayMessage,
     GoalObject(Absent, JNumber(Fin(1, 12)), JNumber(Fin(7, 1)), Absent),
     GoalObject(JNumber(Fin(1000, 1)), JNumber(Fin(1, 12)), JNumber(Fin(7, 1)), Absent),
     GoalObject(JNumber(Fin(1000, 1)), JNumber(Fin(1, 8)), JNumber(Zero),
                JNumber(Fin(100, 1))),
     GoalObject(JNumber(Fin(1000, 1)), JNumber(Huge), JNumber(Fin(7, 1)), Absent)}

SeqInit == goal_self = GoalAgentNew /\ calls = <<>>

\* agent.run(msg) on the one instance
GoalCall ==
    /\ Len(calls) < MaxCalls
    /\ \E msg \in GoalSeqMessages :
        \E o \in {GoalRunOn(goal_self, msg)} :
            /\ calls' = Append(calls, [msg |-> msg, resp |-> o.resp])
            /\ goal_self' = o.self
    /\ UNCHANGED <<chunkVars, storeVars, agentVars, routeVars, cacheVars, lateVars>>

-----------------------------------------------------------------------------
(* workflow/graph.py: classify_route *)

MaxPieces == 3

\* A message is the concatenation of pieces of text. No keyword of the router
\* arises across the boundary of two pieces.
Pieces ==
    {" ", "$", "?", "{}", "{\"", "\": 1}", "ab", "AAPL", "save", "GOAL", "stock",
     "market", "portfolio", "target_amount", "abcdef"}
RouteMessages == SeqsUpTo(Pieces, MaxPieces)

\* piece.lower()
LowerPiece(piece) ==
    CASE piece = "AAPL" -> "aapl"
      [] piece = "GOAL" -> "goal"
      [] OTHER -> piece

\* The keywords of the router that occur in a piece of text
KeywordsIn(piece) ==
    CASE piece = "save" -> {"save"}
      [] piece = "goal" -> {"goal"}
      [] piece = "stock" -> {"stock"}
      [] piece = "market" -> {"market"}
      [] piece = "portfolio" -> {"portfolio"}
      [] piece = "target_amount" -> {"target_amount"}
      [] piece = "{}" -> {"{"}
      [] piece = "{\"" -> {"{"}
      [] OTHER -> {}

\* The number of characters of a piece made of the letters A-Z, a-z only; 0 for
\* any other piece
LettersOf(piece) ==
    CASE piece = "ab" -> 2
      [] piece \in {"AAPL", "save", "GOAL"} -> 4
      [] piece = "stock" -> 5
      [] piece \in {"market", "abcdef"} -> 6
      [] piece = "portfolio" -> 9
      [] OTHER -> 0

\* keyword in msg, for msg = user_message.lower()
ContainsAny(msg, keywords) ==
    \E i \in 1..Len(msg) : KeywordsIn(LowerPiece(msg[i])) \cap keywords # {}

\* [A-Za-z]{1,5}  (with six letters allowed: see C18)
TickerLengthUpToSix(n) == 1 <= n /\ n <= 6

TickerLength(n) == 1 <= n /\ n <= 5

\* re.fullmatch(r"\s*\$?[A-Za-z]{1,5}\s*", user_message): the pieces from
\* position i on are whitespace only
RECURSIVE OnlySpaceFrom(_, _)
OnlySpaceFrom(msg, i) ==
    IF i > Len(msg) THEN TRUE
    ELSE msg[i] = " " /\ OnlySpaceFrom(msg, i + 1)
\* ... a run of letters of n characters so far, then whitespace only
RECURSIVE LettersThenSpaceFrom(_, _, _)
LettersThenSpaceFrom(msg, i, n) ==
    IF i <= Len(msg) /\ LettersOf(msg[i]) > 0
    THEN LettersThenSpaceFrom(msg, i + 1, n + LettersOf(msg[i]))
    ELSE TickerLength(n) /\ OnlySpaceFrom(msg, i)
\* ... whitespace, an optional "$", letters, whitespace
RECURSIVE TickerOnlyFrom(_, _)
TickerOnlyFrom(msg, i) ==
    IF i <= Len(msg) /\ msg[i] = " " THEN TickerOnlyFrom(msg, i + 1)
    ELSE IF i <= Len(msg) /\ msg[i] = "$" THEN LettersThenSpaceFrom(msg, i + 1, 0)
    ELSE LettersThenSpaceFrom(msg, i, 0)
TickerOnly(msg) == TickerOnlyFrom(msg, 1)

GoalKeywords == {"save", "goal", "expected_annual_return", "target_amount"}
MarketKeywords == {"stock", "price", "market", "quote"}
PortfolioKeywords == {"portfolio", "allocation", "diversification", "{"}

classify_route(msg) ==
    IF TickerOnly(msg) THEN "market"
    ELSE IF ContainsAny(msg, GoalKeywords) THEN "goal"
    ELSE IF ContainsAny(msg, MarketKeywords) THEN "market"
    ELSE IF ContainsAny(msg, PortfolioKeywords) THEN "portfolio"
    ELSE "finance_qa"

RouteInit == route_msg \in RouteMessages /\ route = "none"
RouteIdle == route_msg = <<>> /\ route = "none"

\* classify_route(user_message)
ClassifyRoute ==
    /\ route = "none"
    /\ route' = classify_route(route_msg)
    /\ UNCHANGED route_msg
    /\ UNCHANGED <<chunkVars, storeVars, agentVars, seqVars, cacheVars, lateVars>>

-----------------------------------------------------------------------------
(* workflow/graph.py: the agent accessors, each wrapped in                 *)
(* functools.lru_cache(maxsize=1).  The wrapper looks the key up, and on a *)
(* miss calls the wrapped function with no lock held, then stores the      *)
(* result unless the key has been stored meanwhile; the caller gets the    *)
(* result of its own call either way.  An exception is not cached.         *)

MaxThreads == 2
MaxInvocations == 2

Threads == 1..MaxThreads

Accessors == {"_finance_agent", "_market_agent", "_portfolio_agent", "_goal_agent"}

\* FinanceQAAgent.__init__ constructs a Retriever, whose embedding call may
\* fail; the other agents' constructors call no service
ConstructionOutcomes(a) ==
    IF a = "_finance_agent" THEN {"constructed", "raised"} ELSE {"constructed"}

ThreadIdle == [pc |-> "idle", acc |-> "", inst |-> 0]

CacheInit ==
    /\ cache = [a \in Accessors |-> 0]
    /\ constructed = [a \in Accessors |-> 0]
    /\ retrievers = 0
    /\ tpc = [t \in Threads |-> ThreadIdle]
    /\ invocations = [t \in Threads |-> 0]
    /\ overlapped = [a \in Accessors |-> FALSE]

\* A graph node calls the accessor: the wrapper's cache lookup
AccessorCall(t, a) ==
    /\ tpc[t].pc = "idle"
    /\ invocations[t] < MaxInvocations
    /\ invocations' = [invocations EXCEPT ![t] = @ + 1]
    /\ IF cache[a] # 0
       THEN UNCHANGED <<tpc, overlapped>>
       ELSE /\ tpc' = [tpc EXCEPT ![t] = [pc |-> "miss", acc |-> a, inst |-> 0]]
            /\ overlapped' = [overlapped EXCEPT ![a] =
                                 @ \/ \E u \in Threads \ {t} : tpc[u].acc = a]
    /\ UNCHANGED <<cache, constructed, retrievers>>
    /\ UNCHANGED <<chunkVars, storeVars, agentVars, seqVars, routeVars, lateVars>>

\* The wrapped function runs: return FinanceQAAgent() and the like
AgentConstruct(t) ==
    /\ tpc[t].pc = "miss"
    /\ \E o \in ConstructionOutcomes(tpc[t].acc) :
          IF o = "raised"
          THEN /\ tpc' = [tpc EXCEPT ![t] = ThreadIdle]
               /\ UNCHANGED <<constructed, retrievers>>
          ELSE /\ constructed' = [constructed EXCEPT ![tpc[t].acc] = @ + 1]
               /\ retrievers' = IF tpc[t].acc = "_finance_agent"
                                 THEN retrievers + 1 ELSE retrievers
               /\ tpc' = [tpc EXCEPT ![t].pc = "built",
                                      ![t].inst = constructed[tpc[t].acc] + 1]
    /\ UNCHANGED <<cache, invocations, overlapped>>
    /\ UNCHANGED <<chunkVars, storeVars, agentVars, seqVars, routeVars, lateVars>>

\* The wrapper stores the result if the cache is still empty, and returns it
AccessorReturn(t) ==
    /\ tpc[t].pc = "built"
    /\ cache' = [cache EXCEPT ![tpc[t].acc] = IF @ = 0 THEN tpc[t].inst ELSE @]
    /\ tpc' = [tpc EXCEPT ![t] = ThreadIdle]
    /\ UNCHANGED <<constructed, retrievers, invocations, overlapped>>
    /\ UNCHANGED <<chunkVars, storeVars, agentVars, seqVars, routeVars, lateVars>>

-----------------------------------------------------------------------------
(* agents/market_agent.py: MarketAnalysisAgent._extract_ticker.  A message *)
(* is a sequence of characters.                                            *)

MaxMsgLen == 6

\* The characters of the messages: letters of both cases, a digit, the "$"
\* prefix, a space and a punctuation mark
MsgAlphabet == {"a", "B", "7", "$", " ", "-"}
TickerMessages == SeqsUpTo(MsgAlphabet, MaxMsgLen)

\* [A-Za-z0-9]
IsAlnum(c) == c \in {"a", "B", "7"}

\* str.upper() on one character
UpperChar(c) == IF c = "a" THEN "A" ELSE c

\* Optional[str]
PyNone == [none |-> TRUE, s |-> <<>>]
PyStr(s) == [none |-> FALSE, s |-> s]
NotCalled == [none |-> FALSE, s |-> <<"(not called)">>]

\* The upper bound of the group's quantifier {1,5}
GroupMax == 5

\* [A-Za-z0-9]{1,5} at position p, greedy: how many characters it takes
RECURSIVE AlnumRun(_, _, _)
AlnumRun(msg, p, taken) ==
    IF taken < GroupMax /\ p + taken <= Len(msg) /\ IsAlnum(msg[p + taken])
    THEN AlnumRun(msg, p, taken + 1)
    ELSE taken

\* The pattern \$?([A-Za-z0-9]{1,5}) tried at position p: where group 1
\* starts, 0 when the pattern does not match at p.  The optional "$" is tried
\* first, and given up when no group follows it.
MatchAt(msg, p) ==
    IF msg[p] = "$" /\ AlnumRun(msg, p + 1, 0) >= 1 THEN p + 1
    ELSE IF AlnumRun(msg, p, 0) >= 1 THEN p
    ELSE 0

\* re.search: the match at the leftmost position that has one
RECURSIVE SearchFrom(_, _)
SearchFrom(msg, p) ==
    IF p > Len(msg) THEN 0
    ELSE IF MatchAt(msg, p) # 0 THEN MatchAt(msg, p)
    ELSE SearchFrom(msg, p + 1)

\* match.group(1).upper(), or None when there is no match
extract_ticker(msg) ==
    LET g == SearchFrom(msg, 1) IN
    IF g = 0 THEN PyNone
    ELSE PyStr([i \in 1..AlnumRun(msg, g, 0) |-> UpperChar(msg[g + i - 1])])

TickerInit == tk_msg \in TickerMessages /\ tk_out = NotCalled
TickerIdle == tk_msg = <<>> /\ tk_out = NotCalled

\* self._extract_ticker(message)
ExtractTicker ==
    /\ tk_out = NotCalled
    /\ tk_out' = extract_ticker(tk_msg)
    /\ UNCHANGED tk_msg
    /\ UNCHANGED <<chunkVars, storeVars, agentVars, seqVars, routeVars, cacheVars>>
    /\ UNCHANGED <<ttlVars, marketVars, graphVars>>

-----------------------------------------------------------------------------
(* utils/cache.py: TTLCache.  One cache is shared by the threads of the     *)
(* process (the market agent is process-wide); a thread may be preempted    *)
(* between any two lines of a method.                                       *)

MaxTime == 2

\* self.ttl, in the clock's unit
CacheTtl == 1

CacheKeys == {"AAPL", "MSFT"}
CacheValues == {1, 2}

\* None
NoValue == 0
NoEntry == [value |-> NoValue, expiry |-> 0]

EmptyStore == [k \in {} |-> NoEntry]

\* self._store[key] = (value, expiry)
StorePut(st, k, v, e) ==
    [x \in DOMAIN st \cup {k} |-> IF x = k THEN [value |-> v, expiry |-> e] ELSE st[x]]

\* del self._store[key]
StoreDel(st, k) == [x \in DOMAIN st \ {k} |-> st[x]]

TtIdle == [pc |-> "idle", key |-> "", value |-> NoValue, expiry |-> 0]
\* How a call ended; for a get that returned a value, latest tells whether
\* that was the value of the most recent set of the key, not yet expired
TtNoOut == [op |-> "none", key |-> "", status |-> "none", ret |-> NoValue, exc |-> "",
            latest |-> FALSE]
TtReturned(o, k, v) ==
    [TtNoOut EXCEPT !.op = o, !.key = k, !.status = "returned", !.ret = v]
TtRaised(o, k, e) ==
    [TtNoOut EXCEPT !.op = o, !.key = k, !.status = "raised", !.exc = e]

TTLInit ==
    /\ now = 0
    /\ ttl_store = EmptyStore
    /\ tt = [t \in Threads |-> TtIdle]
    /\ tt_out = TtNoOut
    /\ last_set = [k \in CacheKeys |-> NoEntry]
    /\ tt_overlapped = FALSE

OthersInCall(t) == \E u \in Threads \ {t} : tt[u].pc # "idle"

TtFrame == UNCHANGED <<chunkVars, storeVars, agentVars, seqVars, routeVars, cacheVars,
                       tickerVars, marketVars, graphVars>>

\* The clock advances
Tick ==
    /\ now < MaxTime
    /\ now' = now + 1
    /\ UNCHANGED <<ttl_store, tt, tt_out, last_set, tt_overlapped>>
    /\ TtFrame

\* set, line 10: expiry = time.time() + self.ttl
SetBegin(t, k, v) ==
    /\ tt[t].pc = "idle"
    /\ tt' = [tt EXCEPT ![t] = [pc |-> "set11", key |-> k, value |-> v,
                                 expiry |-> now + CacheTtl]]
    /\ tt_overlapped' = (tt_overlapped \/ OthersInCall(t))
    /\ UNCHANGED <<now, ttl_store, tt_out, last_set>>
    /\ TtFrame

\* set, line 11: self._store[key] = (value, expiry)
SetStore(t) ==
    /\ tt[t].pc = "set11"
    /\ ttl_store' = StorePut(ttl_store, tt[t].key, tt[t].value, tt[t].expiry)
    /\ last_set' = [last_set EXCEPT ![tt[t].key] =
                        [value |-> tt[t].value, expiry |-> tt[t].expiry]]
    /\ tt_out' = TtReturned("set", tt[t].key, NoValue)
    /\ tt' = [tt EXCEPT ![t] = TtIdle]
    /\ UNCHANGED <<now, tt_overlapped>>
    /\ TtFrame

\* get, line 14: if key in self._store  (line 20 when it is not)
GetBegin(t, k) ==
    /\ tt[t].pc = "idle"
    /\ tt_overlapped' = (tt_overlapped \/ OthersInCall(t))
    /\ IF k \in DOMAIN ttl_store
       THEN /\ tt' = [tt EXCEPT ![t] = [TtIdle EXCEPT !.pc = "get15", !.key = k]]
            /\ UNCHANGED tt_out
       ELSE /\ tt_out' = TtReturned("get", k, NoValue)
            /\ UNCHANGED tt
    /\ UNCHANGED <<now, ttl_store, last_set>>
    /\ TtFrame

\* get, line 15: value, expiry = self._store[key]
GetRead(t) ==
    /\ tt[t].pc = "get15"
    /\ IF tt[t].key \in DOMAIN ttl_store
       THEN /\ tt' = [tt EXCEPT ![t].pc = "get16",
                                 ![t].value = ttl_store[tt[t].key].value,
                                 ![t].expiry = ttl_store[tt[t].key].expiry]
            /\ UNCHANGED tt_out
       ELSE /\ tt_out' = TtRaised("get", tt[t].key, "KeyError")
            /\ tt' = [tt EXCEPT ![t] = TtIdle]
    /\ UNCHANGED <<now, ttl_store, last_set, tt_overlapped>>
    /\ TtFrame

\* get, lines 16-17: if time.time() < expiry: return value
GetCheck(t) ==
    /\ tt[t].pc = "get16"
    /\ IF now < tt[t].expiry
       THEN /\ tt_out' = [TtReturned("get", tt[t].key, tt[t].value) EXCEPT
                              !.latest = /\ last_set[tt[t].key] =
                                            [value |-> tt[t].value, expiry |-> tt[t].expiry]
                                         /\ now < last_set[tt[t].key].expiry]
            /\ tt' = [tt EXCEPT ![t] = TtIdle]
       ELSE /\ tt' = [tt EXCEPT ![t].pc = "get19"]
            /\ UNCHANGED tt_out
    /\ UNCHANGED <<now, ttl_store, last_set, tt_overlapped>>
    /\ TtFrame

\* get, lines 19-20: del self._store[key]; return None
GetDel(t) ==
    /\ tt[t].pc = "get19"
    /\ IF tt[t].key \in DOMAIN ttl_store
       THEN /\ ttl_store' = StoreDel(ttl_store, tt[t].key)
            /\ tt_out' = TtReturned("get", tt[t].key, NoValue)
       ELSE /\ tt_out' = TtRaised("get", tt[t].key, "KeyError")
            /\ UNCHANGED ttl_store
    /\ tt' = [tt EXCEPT ![t] = TtIdle]
    /\ UNCHANGED <<now, last_set, tt_overlapped>>
    /\ TtFrame

\* clear, line 23: self._store.clear()
Clear(t) ==
    /\ tt[t].pc = "idle"
    /\ ttl_store' = EmptyStore
    /\ tt_out' = TtReturned("clear", "", NoValue)
    /\ tt_overlapped' = (tt_overlapped \/ OthersInCall(t))
    /\ UNCHANGED <<now, tt, last_set>>
    /\ TtFrame

-----------------------------------------------------------------------------
(* agents/market_agent.py: MarketAnalysisAgent.run on one instance, one    *)
(* call after the other.  A quote (the dict _get_quote_and_history         *)
(* returns) is one of CacheValues; None is NoValue.                        *)

MARKET_DISCLAIMER ==
    "Educational only - not financial advice. Market data may be delayed or incomplete."

\* The messages of the calls: no ticker, "a", "$a" (the same ticker), "B"
MarketMessages == {<<"-">>, <<"a">>, <<"$", "a">>, <<"B">>}

\* What _get_quote_and_history(ticker) returns: a quote, or None when yfinance
\* failed or gave no price
FetchResults == CacheValues \cup {NoValue}

\* How long the fetch takes, in the clock's unit
FetchDurations == {0, 1}

\* TTLCache.get(key) at time t: the value returned and the store left
TTLGet(st, k, t) ==
    IF k \in DOMAIN st
    THEN IF t < st[k].expiry
         THEN [ret |-> st[k].value, store |-> st]
         ELSE [ret |-> NoValue, store |-> StoreDel(st, k)]
    ELSE [ret |-> NoValue, store |-> st]

\* TTLCache.set(key, value) at time t: the store left
TTLSet(st, k, v, t) == StorePut(st, k, v, t + CacheTtl)

\* `if cached_data:` on None or a quote (a dict of three keys)
PyTruthy(v) == v # NoValue

\* `if market_data is None: return ...`, else self.cache.set(ticker, market_data)
\* (and caching whatever the fetch returned: see C22)
MarketCachesAlways(market_data) == TRUE

MarketCaches(market_data) == market_data # NoValue

\* self._with_disclaimer(message)
MarketWithDisclaimer(message) ==
    IF HasDisclaimer(message) THEN message
    ELSE message \o <<"Disclaimer:", MARKET_DISCLAIMER>>

MarketResponse(message, conf, srcs) ==
    AgentResponse(MarketWithDisclaimer(message), "marketanalysisagent", conf, srcs, <<>>)

\* self._format_answer(ticker, data, cached): the parts of the answer, the
\* ticker and the numbers left out
MarketFormatAnswer(ticker, data, cached) ==
    <<"{ticker}: ${price}", "Last 5 closes: ">> \o (IF cached THEN <<"(cached)">> ELSE <<>>)

MarketNotCalled ==
    [called |-> FALSE, msg |-> <<>>, ticker |-> PyNone, t0 |-> 0, before |-> EmptyStore,
     fetched |-> FALSE, market_data |-> NoValue, resp |-> NoResp]

\* run(user_message) at time t on the cache store st, the fetch (when made)
\* returning `fetch` after d: the response, the store and the time left
MarketAgentRun(msg, st, t, fetch, d) ==
    LET ticker == extract_ticker(msg)
        called == [MarketNotCalled EXCEPT !.called = TRUE, !.msg = msg,
                                          !.ticker = ticker, !.t0 = t, !.before = st]
    IN
    IF ticker.none
    THEN [out |-> [called EXCEPT !.resp =
                      MarketResponse(<<"I couldn't spot a ticker symbol in your message.">>,
                                     "low", <<>>)],
          store |-> st, time |-> t]
    ELSE LET got == TTLGet(st, ticker.s, t) IN
         IF PyTruthy(got.ret)
         THEN [out |-> [called EXCEPT !.resp =
                           MarketResponse(MarketFormatAnswer(ticker.s, got.ret, TRUE),
                                          "high", <<"yfinance (cache)">>)],
               store |-> got.store, time |-> t]
         ELSE IF ~MarketCaches(fetch)
         THEN [out |-> [called EXCEPT !.fetched = TRUE, !.market_data = fetch, !.resp =
                           MarketResponse(<<"I couldn't fetch data for {ticker} right now.">>,
                                          "low", <<"yfinance">>)],
               store |-> got.store, time |-> t + d]
         ELSE [out |-> [called EXCEPT !.fetched = TRUE, !.market_data = fetch, !.resp =
                           MarketResponse(MarketFormatAnswer(ticker.s, fetch, FALSE),
                                          "high", <<"yfinance">>)],
               store |-> TTLSet(got.store, ticker.s, fetch, t + d), time |-> t + d]

MarketInit == m_out = MarketNotCalled
MarketIdle == MarketInit

\* agent.run(msg) on the one instance
MarketRun ==
    \E msg \in MarketMessages : \E fetch \in FetchResults : \E d \in FetchDurations :
      \E o \in {MarketAgentRun(msg, ttl_store, now, fetch, d)} :
        /\ o.time <= MaxTime
        /\ m_out' = o.out
        /\ ttl_store' = o.store
        /\ now' = o.time
        /\ UNCHANGED <<tt, tt_out, last_set, tt_overlapped>>
        /\ UNCHANGED <<chunkVars, storeVars, agentVars, seqVars, routeVars, cacheVars,
                       tickerVars, graphVars>>

-----------------------------------------------------------------------------
(* agents/finance_qa_agent.py: FinanceQAAgent.run, as far as the graph     *)
(* sees it: the response built from the model's output, or the exception   *)
(* of the retrieval or of the OpenAI client.                               *)

QA_DISCLAIMER ==
    "Educational only - not financial advice. Consider a licensed financial professional for personalized guidance."

QAWithDisclaimer(message) ==
    IF HasDisclaimer(message) THEN message
    ELSE message \o <<"Disclaimer:", QA_DISCLAIMER>>

FinanceQAResponse(output_text) ==
    AgentResponse(QAWithDisclaimer(output_text), "FinanceQA_Agent", "high",
                  <<"Investopedia">>, <<>>)

FinanceQARunOutcomes ==
    {FinanceQAResponse(<<"(model output)">>),
     FinanceQAResponse(<<"(model output)", "Disclaimer:", "(model's own)">>),
     AgentRaises("EmbeddingServiceError", <<>>),
     AgentRaises("OpenAIError", <<>>)}

-----------------------------------------------------------------------------
(* workflow/graph.py: router_node, the agent nodes and build_graph; one    *)
(* invocation get_graph().invoke(payload) as web_app/app.py makes it.  The *)
(* message is a sequence of text pieces, as for classify_route; an agent   *)
(* node's run gives any outcome its agent's run has on some message.       *)

Routes == {"goal", "market", "portfolio", "finance_qa"}

\* payload["route"]: absent, one of the routes, or something else
PresetRoutes == {"none", "bogus"} \cup Routes

GraphMessages == {m \in RouteMessages : Len(m) <= 1}

GoalRunOutcomes == {GoalAgentRun(m) : m \in GoalSeqMessages}
PortfolioRunOutcomes == {PortfolioAgentRun(m) : m \in {Malformed, PortfolioKnownCase}}
MarketRunOutcomes ==
    {MarketAgentRun(m, EmptyStore, 0, f, 0).out.resp :
        m \in MarketMessages, f \in FetchResults}

\* _finance_agent().run(state.userMsg) and the like
NodeRunOutcomes(node) ==
    CASE node = "goal" -> GoalRunOutcomes
      [] node = "market" -> MarketRunOutcomes
      [] node = "portfolio" -> PortfolioRunOutcomes
      [] node = "finance_qa" -> FinanceQARunOutcomes

\* GraphState(**payload): the fields the payload lacks take their defaults
GraphStateOf(payload) ==
    [userMsg |-> payload.userMsg, route |-> payload.route, answer |-> <<>>,
     agent_name |-> "", confidence |-> "", sources |-> <<>>]

GraphInit ==
    /\ g_in \in [userMsg : GraphMessages, route : PresetRoutes]
    /\ g_state = GraphStateOf(g_in)
    /\ g_pc = "router"
    /\ g_run = <<>>
    /\ g_classified = 0
    /\ g_resp = NoResp

GraphIdle ==
    /\ g_in = [userMsg |-> <<>>, route |-> "none"]
    /\ g_state = GraphStateOf(g_in)
    /\ g_pc = "end"
    /\ g_run = <<>>
    /\ g_classified = 0
    /\ g_resp = NoResp

GraphFrame == UNCHANGED <<chunkVars, storeVars, agentVars, seqVars, routeVars, cacheVars,
                          tickerVars, ttlVars, marketVars>>

\* router_node: `if state.route in ("goal", "market", "portfolio", "finance_qa")`
\* (and a router that classifies whatever the route: see C21)
RouterClassifiesAlways(r) == FALSE

RouterKeepsRoute(r) == r \in Routes

\* router_node, then the conditional edge lambda state: state.route
RouterNode ==
    /\ g_pc = "router"
    /\ g_run' = Append(g_run, "router")
    /\ IF RouterKeepsRoute(g_state.route)
       THEN /\ g_state' = [g_state EXCEPT !.route = g_state.route]
            /\ UNCHANGED g_classified
       ELSE /\ g_state' = [g_state EXCEPT !.route = classify_route(g_state.userMsg)]
            /\ g_classified' = g_classified + 1
    /\ g_pc' = g_state'.route
    /\ UNCHANGED <<g_in, g_resp>>
    /\ GraphFrame

\* finance_qa_node, market_node, portfolio_node, goal_node, then the edge to END
AgentNode(node) ==
    /\ g_pc = node
    /\ g_run' = Append(g_run, node)
    /\ \E response \in NodeRunOutcomes(node) :
        /\ g_resp' = response
        /\ IF response.kind = "raised"
           THEN g_pc' = "raised" /\ UNCHANGED g_state
           ELSE /\ g_state' = [g_state EXCEPT !.answer = response.answer,
                                              !.agent_name = response.agent_name,
                                              !.confidence = response.confidence,
                                              !.sources = response.sources]
                /\ g_pc' = "end"
    /\ UNCHANGED <<g_in, g_classified>>
    /\ GraphFrame

finance_qa_node == AgentNode("finance_qa")
market_node == AgentNode("market")
portfolio_node == AgentNode("portfolio")
goal_node == AgentNode("goal")

-----------------------------------------------------------------------------
(* Specifications *)

\* The components a specification does not exercise stay as constructed
ChunkIdle ==
    /\ text = <<>> /\ chunk_size = DefaultChunkSize /\ overlap = DefaultOverlap
    /\ start = 0 /\ chunks = <<>> /\ cpc = "idle"

StoreIdle == StoreInit

SeqIdle == SeqInit

CacheIdle == CacheInit

\* Everything but the single agent call, as constructed
TTLIdle == TTLInit

LateIdle == TickerIdle /\ TTLIdle /\ MarketIdle /\ GraphIdle

OthersIdle == SeqIdle /\ RouteIdle /\ CacheIdle /\ LateIdle

AgentIdle ==
    /\ agent = "none" /\ user_message = Malformed /\ resp = NoResp

\* One call of an agent's run on one message
Init ==
    /\ ChunkIdle /\ StoreIdle /\ OthersIdle
    /\ \/ agent = "goal" /\ user_message \in GoalMessages
       \/ agent = "portfolio" /\ user_message \in PortfolioMessages
    /\ resp = NoResp
Next == GoalRun \/ PortfolioRun
Spec == Init /\ [][Next]_vars

\* chunk_text: one call, from its entry to its return
InitChunk == ChunkInit /\ StoreIdle /\ AgentIdle /\ OthersIdle
NextChunk == ChunkStep \/ ChunkReturn
SpecChunk == InitChunk /\ [][NextChunk]_vars

\* VectorStore and Retriever: any sequence of calls
InitStore == ChunkIdle /\ StoreInit /\ AgentIdle /\ OthersIdle
NextStore == Build \/ Search \/ RetrieverConstruct \/ Retrieve
SpecStore == InitStore /\ [][NextStore]_vars

\* One VectorStore: any sequence of build calls, returning or raising, and of
\* searches
NextBuilds == BuildAnyResponse \/ Search
SpecBuilds == InitStore /\ [][NextBuilds]_vars

\* One GoalAgent instance: any sequence of run calls
InitGoalSeq == ChunkIdle /\ StoreIdle /\ AgentIdle /\ SeqInit /\ RouteIdle /\ CacheIdle /\ LateIdle
NextGoalSeq == GoalCall
SpecGoalSeq == InitGoalSeq /\ [][NextGoalSeq]_vars

\* classify_route: one call on one message
InitRoute == ChunkIdle /\ StoreIdle /\ AgentIdle /\ SeqIdle /\ RouteInit /\ CacheIdle /\ LateIdle
NextRoute == ClassifyRoute
SpecRoute == InitRoute /\ [][NextRoute]_vars

\* The agent accessors called from several threads of one process
InitCache ==
    ChunkIdle /\ StoreIdle /\ AgentIdle /\ SeqIdle /\ RouteIdle /\ CacheInit /\ LateIdle
NextCache ==
    \E t \in Threads :
        \/ \E a \in Accessors : AccessorCall(t, a)
        \/ AgentConstruct(t)
        \/ AccessorReturn(t)
SpecCache == InitCache /\ [][NextCache]_vars

\* Everything of the earlier machines, as constructed
EarlyIdle == ChunkIdle /\ StoreIdle /\ AgentIdle /\ SeqIdle /\ RouteIdle /\ CacheIdle

\* _extract_ticker: one call on one message
InitTicker == EarlyIdle /\ TickerInit /\ TTLIdle /\ MarketIdle /\ GraphIdle
NextTicker == ExtractTicker
SpecTicker == InitTicker /\ [][NextTicker]_vars

\* One TTLCache called from the threads of the process
InitTTL == EarlyIdle /\ TickerIdle /\ TTLInit /\ MarketIdle /\ GraphIdle
NextTTL ==
    \/ Tick
    \/ \E t \in Threads :
        \/ \E k \in CacheKeys : \E v \in CacheValues : SetBegin(t, k, v)
        \/ SetStore(t)
        \/ \E k \in CacheKeys : GetBegin(t, k)
        \/ GetRead(t)
        \/ GetCheck(t)
        \/ GetDel(t)
        \/ Clear(t)
SpecTTL == InitTTL /\ [][NextTTL]_vars

\* One MarketAnalysisAgent: any sequence of run calls, the clock advancing
InitMarket == EarlyIdle /\ TickerIdle /\ TTLInit /\ MarketInit /\ GraphIdle
NextMarket == MarketRun \/ Tick
SpecMarket == InitMarket /\ [][NextMarket]_vars

\* One invocation of the graph
InitGraph == EarlyIdle /\ TickerIdle /\ TTLIdle /\ MarketIdle /\ GraphInit
NextGraph == RouterNode \/ finance_qa_node \/ market_node \/ portfolio_node \/ goal_node
SpecGraph == InitGraph /\ [][NextGraph]_vars

-----------------------------------------------------------------------------
(* Claims about chunk_text, checked under SpecChunk *)

\* ceil(a / b) for b > 0
CeilDiv(a, b) == -((-a) \div b)

ChunkStride == chunk_size - overlap
ChunkOffset(i) == (i - 1) * ChunkStride
ChunkReturnedValid == cpc = "returned" /\ ValidConfig(chunk_size, overlap)

\* C3: a call whose configuration violates 0 <= overlap < chunk_size fails with
\* InvalidConfiguration: it neither appends a chunk nor returns a list.
C3_InvalidConfigurationRaised ==
    (cpc # "idle" /\ ~ValidConfig(chunk_size, overlap))
        => (cpc # "returned" /\ chunks = <<>>)

\* C4: with a valid configuration the returned chunk i (counted from 0) is the
\* substring of text that starts at offset i*(chunk_size-overlap); the chunks
\* cover every position of a non-empty text and the last one ends at len(text);
\* an empty text gives no chunk.
C4_ChunksAreWindowsCoveringText ==
    ChunkReturnedValid =>
        /\ text = <<>> => chunks = <<>>
        /\ text # <<>> =>
            /\ Len(chunks) >= 1
            /\ \A i \in 1..Len(chunks) :
                /\ Len(chunks[i]) >= 1
                /\ ChunkOffset(i) + Len(chunks[i]) <= Len(text)
                /\ chunks[i] = SubSeq(text, ChunkOffset(i) + 1, ChunkOffset(i) + Len(chunks[i]))
            /\ \A p \in 0..(Len(text) - 1) :
                \E i \in 1..Len(chunks) :
                    ChunkOffset(i) <= p /\ p < ChunkOffset(i) + Len(chunks[i])
            /\ ChunkOffset(Len(chunks)) + Len(chunks[Len(chunks)]) = Len(text)

C4_Witness ==
    /\ ChunkReturnedValid
    /\ overlap >= 1
    /\ Len(chunks) >= 3
    /\ \E i \in 1..Len(chunks) : \E j \in 1..Len(chunks[i]) : chunks[i][j] # chunks[1][1]

\* C5: no chunk is longer than chunk_size, every chunk but the last
\* has exactly chunk_size characters, and a non-empty text gives
\* ceil((len(text) - overlap) / (chunk_size - overlap)) chunks.
C5_OnlyLastChunkShorter ==
    ChunkReturnedValid =>
        /\ \A i \in 1..Len(chunks) : Len(chunks[i]) <= chunk_size
        /\ \A i \in 1..(Len(chunks) - 1) : Len(chunks[i]) = chunk_size
        /\ text # <<>> => Len(chunks) = CeilDiv(Len(text) - overlap, ChunkStride)

\* What chunk_text returns instead: chunk i (from 0) has
\* min(chunk_size, len(text) - i*stride) characters, so with overlap > 0 several
\* trailing chunks can be shorter than chunk_size (all but the first of them
\* lying wholly inside their predecessor), and there are ceil(len(text) / (chunk_size - overlap)) chunks.
ChunkLengthsAndCount ==
    ChunkReturnedValid =>
        /\ \A i \in 1..Len(chunks) :
            /\ Len(chunks[i]) <= chunk_size
            /\ Len(chunks[i]) = Min(chunk_size, Len(text) - ChunkOffset(i))
            /\ (Len(chunks[i]) < chunk_size) <=> (ChunkOffset(i) + chunk_size > Len(text))
        /\ Len(chunks) = CeilDiv(Len(text), ChunkStride)

-----------------------------------------------------------------------------
(* Claims about VectorStore and Retriever, checked under SpecStore *)

StoredCount == IF index.none THEN 0 ELSE Len(index.vecs)

\* The last call was a search (directly or through Retriever.retrieve) whose
\* query was embedded
SearchedWithEmbedding ==
    sout.op \in {"search", "retrieve"} /\ sout.exc # "EmbeddingServiceError"

\* C6: searching an index that was never built, or holds no vector, fails with
\* IndexNotBuilt and with no other error.
C6_UnbuiltSearchRaisesIndexNotBuilt ==
    (SearchedWithEmbedding /\ StoredCount = 0)
        => (sout.status = "raised" /\ sout.exc = "IndexNotBuilt")

\* C7: with a document source that yields no documents (the embedding call
\* itself not failing) the Retriever constructor returns.
C7_EmptySourceRetrieverConstructs ==
    (sout.op = "Retriever" /\ sout.ndocs = 0 /\ sout.exc # "EmbeddingServiceError")
        => (sout.status = "returned" /\ retriever = "constructed")

\* stored chunk i comes before stored chunk j in the order of C8: nearer to the
\* query, or as near and inserted earlier
NearerOrEarlier(i, j) ==
    \/ L2(index.vecs[i], sout.q) < L2(index.vecs[j], sout.q)
    \/ (L2(index.vecs[i], sout.q) = L2(index.vecs[j], sout.q) /\ i < j)

\* C8: on an index of N >= 1 vectors a search returns, without error also when
\* top_k > N, exactly min(top_k, N) texts: those of the chunks that come first
\* by non-decreasing L2 distance to the query, ties by insertion order.
C8_SearchReturnsNearestInOrder ==
    (SearchedWithEmbedding /\ StoredCount >= 1) =>
        /\ sout.status = "returned"
        /\ Len(sout.result) = Min(sout.top_k, StoredCount)
        /\ \E ord \in [1..Len(sout.result) -> 1..StoredCount] :
            /\ \A r \in 1..Len(sout.result) : sout.result[r] = text_chunks[ord[r]]
            /\ \A r \in 1..(Len(sout.result) - 1) : NearerOrEarlier(ord[r], ord[r + 1])
            /\ \A j \in 1..StoredCount :
                (\A r \in 1..Len(sout.result) : ord[r] # j)
                    => \A r \in 1..Len(sout.result) : NearerOrEarlier(ord[r], j)

C8_Witness ==
    /\ SearchedWithEmbedding
    /\ sout.status = "returned"
    /\ StoredCount >= 2
    /\ sout.top_k > StoredCount
    /\ \E i, j \in 1..StoredCount :
        /\ i < j
        /\ index.vecs[i] # index.vecs[j]
        /\ L2(index.vecs[i], sout.q) = L2(index.vecs[j], sout.q)
        /\ text_chunks[i] # text_chunks[j]

\* C9 as stated: a query whose embedding equals the stored vector of chunk i
\* gets chunk i's own text as the first result, for every such i.
C9_OwnTextIsTop1 ==
    (SearchedWithEmbedding /\ StoredCount >= 1 /\ sout.status = "returned") =>
        \A i \in 1..StoredCount :
            index.vecs[i] = sout.q => sout.result[1] = text_chunks[i]

\* C9 amended: the first result is the text of the earliest stored chunk whose
\* vector equals the query's embedding (distance 0); it is chunk i's own text
\* for every such chunk i that no earlier chunk with another text shares its
\* vector with.
C9_EarliestEqualVectorIsTop1 ==
    (SearchedWithEmbedding /\ StoredCount >= 1) =>
        \A i \in 1..StoredCount :
            index.vecs[i] = sout.q =>
                /\ sout.status = "returned"
                /\ (\A j \in 1..(i - 1) : index.vecs[j] # sout.q)
                        => sout.result[1] = text_chunks[i]
                /\ (\A j \in 1..(i - 1) :
                        index.vecs[j] = sout.q => text_chunks[j] = text_chunks[i])
                        => sout.result[1] = text_chunks[i]

C9_Witness ==
    /\ SearchedWithEmbedding
    /\ sout.status = "returned"
    /\ StoredCount >= 2
    /\ index.vecs[2] = sout.q
    /\ index.vecs[1] # sout.q
    /\ text_chunks[1] # text_chunks[2]
    /\ sout.result[1] = text_chunks[2]

-----------------------------------------------------------------------------
(* Claims about the agents, checked under Spec *)

\* C1: every answer an agent's run returns, on every path, contains
\* "disclaimer:" (whatever the case) exactly once.
C1_DisclaimerExactlyOnce ==
    resp.kind = "response" => DisclaimerCount(resp.answer) = 1

\* What the specification asks of the input, in its own terms: a value is a
\* usable number when it coerces to a finite number.
CoercesToFinite(v) == PyFloat(v).exc = "" /\ IsFinite(PyFloat(v).f)
NumberOf(v) == PyFloat(v).f
Field(key) == GetKey(user_message.items, key, Absent)

GoalInputValid ==
    /\ user_message.shape = "object"
    /\ CoercesToFinite(Field("target_amount")) /\ FLt(Zero, NumberOf(Field("target_amount")))
    /\ CoercesToFinite(Field("years")) /\ FLt(Zero, NumberOf(Field("years")))
    /\ CoercesToFinite(Field("expected_annual_return"))
    /\ FLe(Zero, NumberOf(Field("expected_annual_return")))
    /\ FLe(NumberOf(Field("expected_annual_return")), Fin(100, 1))
    /\ \/ Field("current_savings") = Absent
       \/ /\ CoercesToFinite(Field("current_savings"))
          /\ FLe(Zero, NumberOf(Field("current_savings")))

PortfolioInputValid ==
    /\ user_message.shape = "object"
    /\ \E i \in 1..Len(user_message.items) :
        /\ CoercesToFinite(user_message.items[i][2])
        /\ FLt(Zero, NumberOf(user_message.items[i][2]))
        /\ UpperStrip(user_message.items[i][1]) # ""

InputValid == IF agent = "goal" THEN GoalInputValid ELSE PortfolioInputValid

\* C2: GoalAgent.run and PortfolioAgent.run return a response for every input
\* and never raise; the confidence is "low" when the input is not a JSON object,
\* fails field validation (goal) or leaves no holding (portfolio), and "high"
\* otherwise.
C2_NeverRaisesLowIffInvalid ==
    resp # NoResp =>
        /\ resp.kind = "response"
        /\ resp.confidence = IF InputValid THEN "high" ELSE "low"

\* The goal request reaches the normalization of expected_annual_return: it is
\* an object with the required fields, target_amount and years pass, and the
\* rate coerces to a finite float
RateReached ==
    /\ agent = "goal" /\ resp # NoResp
    /\ user_message.shape = "object"
    /\ CoercesToFinite(Field("target_amount")) /\ FLt(Zero, NumberOf(Field("target_amount")))
    /\ CoercesToFinite(Field("years")) /\ FLt(Zero, NumberOf(Field("years")))
    /\ CoercesToFinite(Field("expected_annual_return"))
RateGiven == NumberOf(Field("expected_annual_return"))
RateInRange == FLe(Zero, RateGiven) /\ FLe(RateGiven, Fin(100, 1))

\* C10: a finite expected_annual_return r in [0,1) is the decimal rate as it
\* is, r in [1,100] gives r/100, and r outside [0,100] gives the out-of-range
\* error response (low confidence), the contribution not being computed.
C10_AnnualReturnNormalization ==
    RateReached =>
        /\ RateInRange =>
            /\ resp.trace.validation.r # "error" \/ resp.trace.validation.msg # MsgReturnRange
            /\ resp.trace.validation.r = "ok" =>
                /\ FLt(RateGiven, One)
                    => resp.trace.validation.norm.annual_return_decimal = RateGiven
                /\ FLe(One, RateGiven)
                    => FMul(resp.trace.validation.norm.annual_return_decimal, Fin(100, 1))
                            = RateGiven
                /\ resp.kind = "response"
                    => FMul(resp.trace.result.monthly_rate, Fin(12, 1))
                            = resp.trace.validation.norm.annual_return_decimal
        /\ ~RateInRange =>
            /\ resp.kind = "response"
            /\ resp.confidence = "low"
            /\ resp.answer[1] = MsgReturnRange
            /\ ~resp.trace.computed

C10_Witness ==
    /\ RateReached
    /\ RateGiven = Fin(7, 1)
    /\ resp.kind = "response" /\ resp.confidence = "high"
    /\ resp.trace.computed
    /\ resp.trace.validation.norm.annual_return_decimal = Fin(7, 100)
    /\ resp.trace.result.monthly_rate = Fin(7, 1200)


-----------------------------------------------------------------------------
(* Claims about the goal computation, checked under Spec *)

\* The goal request passed validation
GoalValidated ==
    /\ agent = "goal" /\ resp # NoResp
    /\ resp.trace.validation.r = "ok"

\* The contribution the run reports is the one the closed form gives for the
\* validated request: with n = max(1, round(years * 12)), i = annual / 12 and
\* need = target - savings * (1 + i)^n, it is 0 when need <= 0, need / n when
\* i = 0, and need / (((1 + i)^n - 1) / i) otherwise; and it is not negative.
ContributionAsClaimed ==
    LET norm == resp.trace.validation.norm
        c == resp.trace.result.monthly_contribution
        n == Max(1, PyRound(FMul(norm.years, Fin(12, 1))))
        i == FDiv(norm.annual_return_decimal, Fin(12, 1))
        g == FPow(FAdd(One, i), n)
        need == FSub(norm.target_amount, FMul(norm.current_savings, g))
    IN  /\ resp.trace.result.months = n
        /\ resp.trace.result.monthly_rate = i
        /\ resp.trace.result.fv_needed = need
        /\ FLe(need, Zero) => c = Zero
        /\ (~FLe(need, Zero) /\ i = Zero) => FMul(c, Fin(n, 1)) = need
        /\ (~FLe(need, Zero) /\ i # Zero) => FMul(c, FSub(g, One)) = FMul(need, i)
        /\ FLe(Zero, c)
        /\ user_message = GoalKnownCase => c = Fin(80000, 120)

\* C11: every validated goal request gets the required monthly contribution of
\* the closed form (0 when the savings alone reach the target, need / months at a
\* zero rate, need / annuity factor otherwise), never negative, 80000/120 in the
\* worked case.
C11_ContributionForEveryValidatedRequest ==
    GoalValidated => (resp.kind = "response" /\ ContributionAsClaimed)

\* What holds instead: the closed form is what run reports whenever it returns
\* a response; a validated request can also make it raise (ZeroDivisionError
\* for a rate below the rounding unit, OverflowError for a horizon whose month
\* count is not representable).
ContributionWhenReturned ==
    (GoalValidated /\ resp.kind = "response") => ContributionAsClaimed

-----------------------------------------------------------------------------
(* Claims about repeated calls of one GoalAgent, checked under SpecGoalSeq *)

-----------------------------------------------------------------------------
(* Claims about the portfolio computation, checked under Spec *)

\* run was called on a JSON object, so _sanitize_holdings was called on it
Sanitized ==
    /\ agent = "portfolio" /\ resp # NoResp
    /\ user_message.shape = "object"

\* The entries of the input that count: the value coerces to a finite number
\* greater than 0 and the ticker, uppercased and trimmed, is not empty
UsableEntries ==
    {i \in 1..Len(user_message.items) :
        /\ CoercesToFinite(user_message.items[i][2])
        /\ FLt(Zero, NumberOf(user_message.items[i][2]))
        /\ UpperStrip(user_message.items[i][1]) # ""}

\* The sum of the usable values whose normalized ticker is t
UsableSum(t) ==
    FSum([i \in 1..Len(user_message.items) |->
            IF i \in UsableEntries /\ UpperStrip(user_message.items[i][1]) = t
            THEN NumberOf(user_message.items[i][2]) ELSE Zero], 1)

\* The sanitized map is the one the claim describes
SanitizedAsClaimed ==
    LET clean == resp.trace.holdings IN
    /\ {clean[j][1] : j \in 1..Len(clean)}
            = {UpperStrip(user_message.items[i][1]) : i \in UsableEntries}
    /\ \A j, l \in 1..Len(clean) : clean[j][1] = clean[l][1] => j = l
    /\ \A j \in 1..Len(clean) : clean[j][2] = UsableSum(clean[j][1])
    /\ user_message = PortfolioSanitizeCase
            => clean = << <<"AAPL", Fin(1500, 1)>>, <<"VTI", Fin(2000, 1)>> >>

\* C13: for every input map _sanitize_holdings returns the map from the
\* uppercased, trimmed, non-empty tickers of the entries whose value coerces to
\* a finite number > 0 to the sum of those values per ticker; every other entry
\* contributes nothing.
C13_SanitizeReturnsUsableSums ==
    Sanitized => (resp.kind = "response" /\ SanitizedAsClaimed)

\* What holds instead: the map is as described whenever _sanitize_holdings
\* returns; on an integer value beyond the float range it raises OverflowError.
SanitizedWhenReturned ==
    (Sanitized /\ resp.kind = "response") => SanitizedAsClaimed

\* run sanitized the input to a non-empty map and computed its metrics
Analysed ==
    /\ agent = "portfolio" /\ resp.kind = "response" /\ resp.confidence = "high"

\* The weight of the j-th holding of the sanitized map: its share of the total
HoldingWeight(j) ==
    LET h == resp.trace.holdings
    IN  FDiv(h[j][2], FSum([l \in 1..Len(h) |-> h[l][2]], 1))

\* Some holding weighs more than the threshold
SomeWeightAbove(threshold) ==
    \E j \in 1..Len(resp.trace.holdings) : FLt(threshold, HoldingWeight(j))

\* The concentration band and the asset band of C14
ConcentrationBand ==
    LET n == Len(resp.trace.holdings)
        hhi == resp.trace.metrics.hhi
    IN  IF n < 3 \/ SomeWeightAbove(Fin(60, 100)) \/ FLt(Fin(35, 100), hhi) THEN "high"
        ELSE IF SomeWeightAbove(Fin(40, 100)) \/ FLt(Fin(25, 100), hhi) \/ n < 5
        THEN "medium"
        ELSE "low"
AssetBand ==
    LET stock_pct == resp.trace.metrics.stock_pct
    IN  IF FLe(Fin(80, 1), stock_pct) THEN "high"
        ELSE IF FLe(Fin(50, 1), stock_pct) THEN "medium"
        ELSE "low"
MoreSevere(a, b) ==
    IF "high" \in {a, b} THEN "high" ELSE IF "medium" \in {a, b} THEN "medium" ELSE "low"

\* C14: the final risk label is the more severe (low < medium < high) of the
\* concentration band (high if count < 3 or max weight > 0.60 or HHI > 0.35,
\* else medium if max weight > 0.40 or HHI > 0.25 or count < 5, else low) and
\* the asset band (high if stock_pct >= 80, medium if >= 50, else low), so it is
\* never less severe than either.
C14_RiskIsMoreSevereBand ==
    Analysed =>
        /\ resp.trace.metrics.risk = MoreSevere(ConcentrationBand, AssetBand)
        /\ resp.trace.metrics.risk \in {"low", "medium", "high"}
        /\ resp.trace.metrics.risk = "low"
                => (ConcentrationBand = "low" /\ AssetBand = "low")
        /\ resp.trace.metrics.risk = "medium"
                => ("high" \notin {ConcentrationBand, AssetBand})

\* Four holdings, concentration medium (top weight 0.4, HHI 0.34), stocks 80%
\* of the total, so the label is high
C14_Witness ==
    /\ Analysed
    /\ Len(resp.trace.holdings) = 4
    /\ ConcentrationBand = "medium" /\ AssetBand = "high"
    /\ resp.trace.metrics.concentration_risk = "medium"
    /\ resp.trace.metrics.risk = "high"

\* The position in the sanitized map of the holding of allocation row r
RowHolding(r) ==
    CHOOSE j \in 1..Len(resp.trace.holdings) :
        resp.trace.holdings[j][1] = resp.trace.metrics.allocations[r][1]

\* C15: the allocations are a permutation of the holdings (ticker, weight,
\* amount), in order of non-increasing weight, holdings of equal weight in the
\* order of the sanitized map; no holding weighs more than the first entry.
C15_AllocationsSortedByWeight ==
    Analysed =>
        LET h == resp.trace.holdings
            a == resp.trace.metrics.allocations
        IN  /\ Len(a) = Len(h)
            /\ \A j \in 1..Len(h) : \E r \in 1..Len(a) : a[r][1] = h[j][1]
            /\ \A r \in 1..Len(a) :
                /\ \E j \in 1..Len(h) : a[r][1] = h[j][1]
                /\ a[r][3] = h[RowHolding(r)][2]
                /\ a[r][2] = HoldingWeight(RowHolding(r))
            /\ \A r, q \in 1..Len(a) :
                r < q => /\ ~FLt(a[r][2], a[q][2])
                         /\ a[r][2] = a[q][2] => RowHolding(r) < RowHolding(q)
            /\ \A j \in 1..Len(h) : ~FLt(a[1][2], HoldingWeight(j))

\* Four holdings or more, two of equal weight next to each other in the list,
\* and the heaviest not the first of the map
C15_Witness ==
    /\ Analysed
    /\ Len(resp.trace.metrics.allocations) >= 4
    /\ resp.trace.metrics.allocations[1][1] # resp.trace.holdings[1][1]
    /\ FLt(resp.trace.metrics.allocations[2][2], resp.trace.metrics.allocations[1][2])
    /\ \E r \in 2..(Len(resp.trace.metrics.allocations) - 1) :
        resp.trace.metrics.allocations[r][2] = resp.trace.metrics.allocations[r + 1][2]

\* C16: HHI, the sum of the squared weights, lies in (0, 1] and is 1 exactly
\* when there is one holding; diversification_score is (1 - HHI) * 100 rounded
\* to one decimal and lies in [0, 100]; it is 58.7 for 5000/8000/2000.
C16_HhiAndScoreRanges ==
    Analysed =>
        LET h == resp.trace.holdings
            hhi == resp.trace.metrics.hhi
            score == resp.trace.metrics.diversification_score
        IN  /\ hhi = FSum([j \in 1..Len(h) |-> FMul(HoldingWeight(j), HoldingWeight(j))], 1)
            /\ FLt(Zero, hhi) /\ FLe(hhi, One)
            /\ (hhi = One) <=> (Len(h) = 1)
            /\ score = Fin(PyRound(FMul(FMul(FSub(One, hhi), Fin(100, 1)), Fin(10, 1))), 10)
            /\ FLe(Zero, score) /\ FLe(score, Fin(100, 1))
            /\ user_message = PortfolioKnownCase => score = Fin(587, 10)

\* What holds instead: the ranges and the value hold whenever the total of the
\* holdings is an ordinary float; a total at the top of the float range absorbs
\* the smaller holdings (HHI = 1.0 with several holdings) or overflows to inf
\* (HHI = 0.0 or nan).
HhiAndScoreWhenTotalOrdinary ==
    (Analysed /\ resp.trace.metrics.total.k = "fin") =>
        LET h == resp.trace.holdings
            hhi == resp.trace.metrics.hhi
            score == resp.trace.metrics.diversification_score
        IN  /\ hhi = FSum([j \in 1..Len(h) |-> FMul(HoldingWeight(j), HoldingWeight(j))], 1)
            /\ FLt(Zero, hhi) /\ FLe(hhi, One)
            /\ (hhi = One) <=> (Len(h) = 1)
            /\ score = Fin(PyRound(FMul(FMul(FSub(One, hhi), Fin(100, 1)), Fin(10, 1))), 10)
            /\ FLe(Zero, score) /\ FLe(score, Fin(100, 1))
            /\ user_message = PortfolioKnownCase => score = Fin(587, 10)

-----------------------------------------------------------------------------
(* Claims about classify_route, checked under SpecRoute *)

\* The message is the text of a JSON object: {} or {"key": 1}
IsJsonObject(msg) ==
    \/ msg = <<"{}">>
    \/ /\ Len(msg) = 3
       /\ msg[1] = "{\"" /\ LettersOf(msg[2]) > 0 /\ msg[3] = "\": 1}"

\* C17: every message that is a JSON object goes to portfolio or goal, never
\* to market or finance_qa, whatever its keys.
C17_JsonGoesToPortfolioOrGoal ==
    (route # "none" /\ IsJsonObject(route_msg)) => route \in {"portfolio", "goal"}

\* What holds instead: a JSON object goes to market when it contains a market
\* keyword and no goal keyword, and to goal or portfolio otherwise.
JsonRoute ==
    (route # "none" /\ IsJsonObject(route_msg)) =>
        route = IF ContainsAny(route_msg, GoalKeywords) THEN "goal"
                ELSE IF ContainsAny(route_msg, MarketKeywords) THEN "market"
                ELSE "portfolio"

\* The message, whitespace around it apart, is an optional "$" and 1 to 5
\* letters (a piece of letters has two or more, so three pieces have six)
LooksLikeTicker ==
    LET body == SelectSeq(route_msg, LAMBDA piece : piece # " ")
        first == CHOOSE i \in 1..Len(route_msg) : route_msg[i] # " "
        last == CHOOSE i \in 1..Len(route_msg) :
                    route_msg[i] # " " /\ \A j \in (i + 1)..Len(route_msg) : route_msg[j] = " "
        core == IF body # <<>> /\ body[1] = "$" THEN Tail(body) ELSE body
        letters == [i \in 1..Len(core) |-> LettersOf(core[i])]
    IN  /\ body # <<>>
        /\ \A i \in first..last : route_msg[i] # " "
        /\ core # <<>>
        /\ \A i \in 1..Len(core) : letters[i] > 0
        /\ \/ Len(core) = 1 /\ letters[1] <= 5
           \/ Len(core) = 2 /\ letters[1] + letters[2] <= 5

\* The keyword occurs in the message, in any case of its letters
Mentions(keyword) ==
    \E i \in 1..Len(route_msg) : keyword \in KeywordsIn(LowerPiece(route_msg[i]))

\* C18: classify_route returns exactly one of goal, market, portfolio,
\* finance_qa by the first rule that applies: an optional "$" and 1-5 letters
\* with whitespace around go to market; else save / goal /
\* expected_annual_return / target_amount (in any case) go to goal; else stock /
\* price / market / quote go to market; else portfolio / allocation /
\* diversification / "{" go to portfolio; everything else goes to finance_qa.
C18_FirstMatchDecisionList ==
    route # "none" =>
        /\ route \in {"goal", "market", "portfolio", "finance_qa"}
        /\ LET goalish == \E k \in {"save", "goal", "expected_annual_return", "target_amount"} :
                            Mentions(k)
               marketish == \E k \in {"stock", "price", "market", "quote"} : Mentions(k)
               portfolioish == \E k \in {"portfolio", "allocation", "diversification", "{"} :
                            Mentions(k)
           IN  /\ LooksLikeTicker => route = "market"
               /\ (~LooksLikeTicker /\ goalish) => route = "goal"
               /\ (~LooksLikeTicker /\ ~goalish /\ marketish) => route = "market"
               /\ (~LooksLikeTicker /\ ~goalish /\ ~marketish /\ portfolioish)
                        => route = "portfolio"
               /\ (~LooksLikeTicker /\ ~goalish /\ ~marketish /\ ~portfolioish)
                        => route = "finance_qa"

\* "save" alone is a ticker and goes to market although it is a goal keyword
C18_Witness ==
    /\ route = "market"
    /\ route_msg = <<" ", "save", " ">>

-----------------------------------------------------------------------------
(* Claims about the Retriever's embedding calls, checked under SpecStore *)

\* The chunks of all the documents, in order, each document's text being one
\* chunk when it is not empty (the texts of the model are shorter than
\* chunk_size - overlap)
ChunksOfDocs(docs) == SelectSeq(docs, LAMBDA t : t # <<>>)

\* C19: constructing a Retriever makes exactly one embedding call, whose input
\* is all the chunks of all the documents; a retrieve makes exactly one, for
\* the query; when the call fails, the failure reaches the caller and no other
\* embedding call is made for that operation.
C19_OneEmbeddingCallNoRetry ==
    /\ sout.op = "Retriever" =>
        /\ Len(embed_calls) = 1
        /\ embed_calls[1].input = ChunksOfDocs(sout.docs)
        /\ sout.status = "returned" => text_chunks = embed_calls[1].input
    /\ sout.op = "retrieve" =>
        /\ Len(embed_calls) = 1
        /\ embed_calls[1].input = <<QueryText>>
    /\ sout.op \in {"Retriever", "retrieve"} =>
        \A c \in 1..Len(embed_calls) :
            embed_calls[c].failed =>
                /\ c = Len(embed_calls)
                /\ sout.status = "raised" /\ sout.exc = "EmbeddingServiceError"
    /\ (sout.op \in {"Retriever", "retrieve"} /\ sout.exc = "EmbeddingServiceError") =>
        embed_calls[Len(embed_calls)].failed

\* A retriever built from two documents by one call, then a retrieve whose one
\* embedding call failed
C19_Witness ==
    /\ retriever = "constructed" /\ Len(text_chunks) = 2
    /\ sout.op = "retrieve"
    /\ sout.status = "raised" /\ sout.exc = "EmbeddingServiceError"
    /\ Len(embed_calls) = 1 /\ embed_calls[1].failed

-----------------------------------------------------------------------------
(* Claims about the agent accessors, checked under SpecCache *)

\* C20: within one process each agent, and so the FinanceQAAgent's Retriever
\* and its index, is constructed at most once, however the threads' first
\* calls of the accessors interleave.
C20_EachAgentConstructedAtMostOnce ==
    /\ \A a \in Accessors : constructed[a] <= 1
    /\ retrievers <= 1

\* What the accessors do guarantee: an agent is constructed at most once as
\* long as no call of its accessor began while another call of it was running,
\* and never more often than there are threads; a filled cache is never
\* replaced.
ConstructedOnceWhenCallsDoNotOverlap ==
    /\ \A a \in Accessors :
        /\ ~overlapped[a] => constructed[a] <= 1
        /\ constructed[a] <= MaxThreads
        /\ cache[a] # 0 => cache[a] <= constructed[a]
    /\ retrievers = constructed["_finance_agent"]

CacheIsNeverReplaced ==
    [][\A a \in Accessors : cache[a] # 0 => cache'[a] = cache[a]]_vars

-----------------------------------------------------------------------------
(* Claims about _extract_ticker, checked under SpecTicker *)

\* The tokens of a message are its maximal runs of characters other than
\* spaces: msg[i..j] is one of them
IsToken(msg, i, j) ==
    /\ 1 <= i /\ i <= j /\ j <= Len(msg)
    /\ \A k \in i..j : msg[k] # " "
    /\ i = 1 \/ msg[i - 1] = " "
    /\ j = Len(msg) \/ msg[j + 1] = " "

\* Where the characters of a token begin after its optional "$"
AfterDollar(msg, i) == IF msg[i] = "$" THEN i + 1 ELSE i

\* A whole token of 1-5 alphanumeric characters, optionally prefixed with "$"
LooksLikeTickerToken(msg, i, j) ==
    /\ IsToken(msg, i, j)
    /\ AfterDollar(msg, i) <= j
    /\ j - AfterDollar(msg, i) + 1 <= 5
    /\ \A k \in AfterDollar(msg, i)..j : IsAlnum(msg[k])

TickerTokens(msg) ==
    {ij \in (1..Len(msg)) \X (1..Len(msg)) : LooksLikeTickerToken(msg, ij[1], ij[2])}

UpperOf(msg, b, j) == [k \in 1..(j - b + 1) |-> UpperChar(msg[b + k - 1])]

\* C23: _extract_ticker returns the uppercased first token that looks like a
\* ticker (a whole token of 1-5 alphanumeric characters, optionally prefixed
\* with "$"), None when the message has no such token, and never a fragment
\* of a longer word.
C23_FirstWholeTickerToken ==
    tk_out # NotCalled =>
        IF TickerTokens(tk_msg) = {}
        THEN tk_out = PyNone
        ELSE \E ij \in TickerTokens(tk_msg) :
                /\ \A o \in TickerTokens(tk_msg) : ij[1] <= o[1]
                /\ tk_out = PyStr(UpperOf(tk_msg, AfterDollar(tk_msg, ij[1]), ij[2]))

\* What _extract_ticker does return: None exactly when the message has no
\* alphanumeric character, and otherwise the uppercased characters from the
\* first alphanumeric character on, up to the first character that is not
\* alphanumeric and at most five of them, whatever surrounds them.
FirstAlnumRunUpToFive ==
    tk_out # NotCalled =>
        LET alnums == {k \in 1..Len(tk_msg) : IsAlnum(tk_msg[k])} IN
        IF alnums = {} THEN tk_out = PyNone
        ELSE LET b == CHOOSE k \in alnums : \A o \in alnums : k <= o
                 ends == {j \in b..Len(tk_msg) :
                            /\ \A k \in b..j : IsAlnum(tk_msg[k])
                            /\ j - b + 1 <= 5
                            /\ \/ j = Len(tk_msg) \/ ~IsAlnum(tk_msg[j + 1])
                               \/ j - b + 1 = 5}
             IN  \E j \in ends : tk_out = PyStr(UpperOf(tk_msg, b, j))

-----------------------------------------------------------------------------
(* Claims about TTLCache, checked under SpecTTL *)

\* C25: however set, get and clear calls of the threads sharing one TTLCache
\* interleave, get(k) never raises: it returns None or a value that was set.
C25_GetNeverRaises ==
    tt_out.op = "get" =>
        /\ tt_out.status = "returned"
        /\ tt_out.ret \in CacheValues \cup {NoValue}

\* What TTLCache does guarantee: as long as no call began while another thread
\* was inside a call, get never raises and a value it returns is that of the
\* most recent set of the key, not yet expired.  An entry is always that of
\* the key's most recent set.
GetWhenCallsDoNotOverlap ==
    /\ \A k \in DOMAIN ttl_store : ttl_store[k] = last_set[k]
    /\ (~tt_overlapped /\ tt_out.op = "get") =>
        /\ tt_out.status = "returned"
        /\ tt_out.ret # NoValue => tt_out.latest

\* A get that returns None leaves no entry for the key, and it returns None
\* only when the key had no entry or the entry's expiry is not in the future.
GetNoneLeavesNoEntry ==
    [][\A t \in Threads :
          (tt[t].pc # "idle" /\ tt'[t].pc = "idle" /\ tt'[t] # tt[t]
           /\ tt_out'.op = "get" /\ tt_out'.status = "returned" /\ tt_out'.ret = NoValue)
          => /\ tt[t].key \notin DOMAIN ttl_store'
             /\ tt[t].expiry <= now]_vars

\* A get raises KeyError only
GetRaisesOnlyKeyError ==
    tt_out.status = "raised" => tt_out.op = "get" /\ tt_out.exc = "KeyError" /\ tt_overlapped

-----------------------------------------------------------------------------
(* Claims about MarketAnalysisAgent.run, checked under SpecMarket *)

\* The cache held an unexpired entry for the key when the last call began
HeldUnexpired(k) ==
    k \in DOMAIN m_out.before /\ m_out.t0 < m_out.before[k].expiry

\* The entries the last call wrote: those the cache holds now and did not hold,
\* or held differently, before
EntriesWritten ==
    {x \in DOMAIN ttl_store : x \notin DOMAIN m_out.before \/ ttl_store[x] # m_out.before[x]}

\* C22: in every run call of a sequence on one instance, the quote fetch is
\* invoked if and only if the cache holds no unexpired entry for the extracted
\* ticker; an entry is written only after a successful fetch; a failed fetch
\* caches nothing and returns confidence low; a call served from the cache
\* returns confidence high with sources ["yfinance (cache)"].
C22_FetchIffNoUnexpiredEntry ==
    m_out.called =>
        IF m_out.ticker.none
        THEN ~m_out.fetched /\ EntriesWritten = {}
        ELSE /\ m_out.fetched <=> ~HeldUnexpired(m_out.ticker.s)
             /\ \A x \in EntriesWritten :
                    /\ x = m_out.ticker.s
                    /\ m_out.fetched /\ m_out.market_data \in CacheValues
                    /\ ttl_store[x].value = m_out.market_data
             /\ (m_out.fetched /\ m_out.market_data = NoValue) =>
                    /\ m_out.ticker.s \notin DOMAIN ttl_store
                    /\ m_out.resp.confidence = "low"
             /\ ~m_out.fetched =>
                    /\ m_out.resp.confidence = "high"
                    /\ m_out.resp.sources = <<"yfinance (cache)">>

\* "$a" served from the cache that an earlier call filled by a fetch
C22_Witness ==
    /\ m_out.called /\ m_out.msg = <<"$", "a">> /\ m_out.ticker = PyStr(<<"A">>)
    /\ HeldUnexpired(<<"A">>)
    /\ ~m_out.fetched
    /\ m_out.resp.confidence = "high" /\ m_out.resp.sources = <<"yfinance (cache)">>
    /\ EntriesWritten = {}

-----------------------------------------------------------------------------
(* Claims about the workflow graph, checked under SpecGraph *)

\* The invocation is over: it returned its final state or raised
GraphOver == g_pc \in {"end", "raised"}

\* C21: every graph invocation runs the router node first, then exactly one
\* agent node, then ends; the agent run is the one named by the route; a route
\* preset in the input state (goal, market, portfolio or finance_qa) is kept
\* unchanged without calling classify_route; and the final state's answer,
\* agent_name, confidence and sources are those of that single agent's
\* response.
C21_RouterThenOneAgentThenEnd ==
    /\ Len(g_run) <= 2
    /\ Len(g_run) >= 1 => g_run[1] = "router"
    /\ Len(g_run) = 2 => g_run[2] \in Routes /\ g_run[2] = g_state.route
    /\ GraphOver <=> Len(g_run) = 2
    /\ Len(g_run) >= 1 =>
        IF g_in.route \in Routes
        THEN g_state.route = g_in.route /\ g_classified = 0
        ELSE g_state.route = classify_route(g_in.userMsg) /\ g_classified = 1
    /\ g_state.userMsg = g_in.userMsg
    /\ GraphOver => g_resp \in NodeRunOutcomes(g_state.route)
    /\ g_pc = "end" =>
        /\ g_resp.kind = "response"
        /\ g_state.answer = g_resp.answer
        /\ g_state.agent_name = g_resp.agent_name
        /\ g_state.confidence = g_resp.confidence
        /\ g_state.sources = g_resp.sources
    /\ g_pc = "raised" => g_resp.kind = "raised"

\* The goals tab of the app sends a message that classify_route would send to
\* the market agent: the goal agent runs and its response is the final state
C21_Witness ==
    /\ g_in = [userMsg |-> <<"AAPL">>, route |-> "goal"]
    /\ classify_route(g_in.userMsg) = "market"
    /\ g_run = <<"router", "goal">>
    /\ g_pc = "end" /\ g_classified = 0
    /\ g_state.agent_name = "goal" /\ g_state.confidence = "low"
    /\ g_state.answer = g_resp.answer /\ HasDisclaimer(g_state.answer)

-----------------------------------------------------------------------------
(* Claims about the consistency of the VectorStore, checked under SpecBuilds *)

\* C24: after any sequence of build calls, whether each returns or raises,
\* the store is consistent: either it is unbuilt, or the index holds as many
\* vectors as there are text_chunks (the vector at position i being the
\* embedding of text_chunks[i]).
C24_StoreConsistentAfterAnyBuilds ==
    \/ index = NoIndex /\ text_chunks = <<>>
    \/ index # NoIndex /\ Len(index.vecs) = Len(text_chunks)

\* What build does guarantee: the index never holds more vectors than there
\* are text_chunks, so search never reads past the stored texts; the two
\* differ only after a build that raised ValueError on embeddings of unequal
\* dimension, which leaves an empty index beside the texts of the build
\* before.
IndexNeverLongerThanTexts ==
    /\ index = NoIndex => text_chunks = <<>>
    /\ Len(index.vecs) <= Len(text_chunks)
    /\ Len(index.vecs) \in {0, Len(text_chunks)}
    /\ ~(sout.op \in {"search", "retrieve"} /\ sout.exc = "IndexError")

====
